---- MODULE Spec2Model ----
(***************************************************************************)
(* Model of maplibre-gl-noaa-lidar: the StacSearcher catalog index (both   *)
(* classes of that name in src/unnamed/part_001: the one that loads the    *)
(* catalog lazily over the network, lines 56-371, and the one that starts  *)
(* from the bundled pre-built index and rebuilds on demand, lines 444-782).*)
(***************************************************************************)
EXTENDS Integers, Sequences, FiniteSets, TLC

VARIABLES
  argBbox,    \* SpecBbox: the bbox argument handed to _validateBbox (JS numbers)
  validBbox,  \* SpecBbox: what _validateBbox returned, None before the call
  itemBbox,   \* SpecBbox: an item bbox the intersection test is applied to
  hit,        \* SpecBbox: results of the intersection test, None before it ran
  impl,         \* which StacSearcher class is constructed: "lazy" or "prebuilt"
  storageOk,    \* whether localStorage can be used at all (FALSE: every call throws)
  now,          \* Date.now()
  localStorage, \* the entry stored under CACHE_KEY: None or Some(JSON text)
  _items,       \* StacSearcher._items: None (null) or Some(array of CachedItem)
  query,        \* arguments of the last completed call, None before any
  response,     \* what the last completed call returned or threw, None before any
  _loadPromise, \* lazy class: None, a pending promise (of a process) or a rejected one
  runs,         \* the invocations of _loadCatalog / rebuildIndex in progress
  callers,      \* lazy class: the calls suspended at their await of _ensureLoaded()
  finished,     \* ghost: how the process that ended last ended, None before any
  firstOutcome, \* ghost: what the first _loadCatalog settled with, None before
  catalogRequests, \* ghost: how many requests for the root catalog were issued
  okSearch,     \* ghost: a search has returned a response since the last clearCache
  okSince,      \* ghost: so has a search that was called after the last clearCache
  justCleared,  \* ghost: clearCache was called and the index not asked for since
  again,        \* "same"/"differs": the last search repeated the call before it on the
                \* memoized index and returned the same / another response; else "no"
  lastRead,     \* what the last _getFromCache call saw and returned, None before any
  written,      \* the items handed to the last _saveToCache that stored them
  expiredSeen,  \* a read found the entry expired and no write has stored one since
  eptItem,      \* SpecEpt: the StacItem handed to getEptUrl / getCopcUrl
  eptCall,      \* SpecEpt: which of the two was called, None before the call
  eptOut,       \* SpecEpt: what the call resolved or rejected with, None before it
  ctl,          \* SpecControl: the NoaaLidarControl object (its private fields)
  map,          \* SpecControl: the MapLibre map (listeners, style, draw source)
  calls,        \* SpecControl: the invocations of searchByBbox
  loads,        \* SpecLoad: the invocations of loadItem and loadSelectedItems
  trace,        \* SpecControl: what the last step emitted and called, in order
  peer          \* SpecShared: a second StacSearcher of the page, None where there is none

bboxVars == <<argBbox, validBbox, itemBbox, hit>>
cacheVars == <<storageOk, now, localStorage, lastRead, written, expiredSeen>>
searchVars == <<impl, _items, query, response, again>>
procVars == <<_loadPromise, runs, callers, finished, firstOutcome, catalogRequests,
             okSearch, okSince, justCleared>>

eptVars == <<eptItem, eptCall, eptOut>>
ctlVars == <<ctl, map, calls, loads, trace, peer>>

vars == <<bboxVars, cacheVars, searchVars, procVars, eptVars, ctlVars>>

(***************************************************************************)
(* Optional values (null / undefined) and JavaScript numbers.              *)
(***************************************************************************)
None == <<>>
Some(v) == <<v>>

Num(v) == [fin |-> TRUE, v |-> v]
NaN == [fin |-> FALSE, v |-> 0]
PosInf == [fin |-> FALSE, v |-> 1]
NegInf == [fin |-> FALSE, v |-> 0 - 1]

IsFinite(x) == x.fin

Max(a, b) == IF a >= b THEN a ELSE b
Min(a, b) == IF a <= b THEN a ELSE b

(***************************************************************************)
(* _validateBbox: every coordinate is clamped on its own.                  *)
(***************************************************************************)
safeValue_defaultIsMax(val, defaultVal, min, max) ==
  IF ~IsFinite(val) THEN max ELSE Max(min, Min(max, val.v))

safeValue(val, defaultVal, min, max) ==
  IF ~IsFinite(val) THEN defaultVal ELSE Max(min, Min(max, val.v))

_validateBbox(bbox) ==
  << safeValue(bbox[1], 0 - 180, 0 - 180, 180),
     safeValue(bbox[2], 0 - 90, 0 - 90, 90),
     safeValue(bbox[3], 180, 0 - 180, 180),
     safeValue(bbox[4], 90, 0 - 90, 90) >>

(***************************************************************************)
(* The intersection test of searchByExtent's filter: item bbox against the *)
(* validated query bbox.                                                   *)
(***************************************************************************)
Intersects_strictWest(ibbox, qbbox) ==
  ~(ibbox[3] < qbbox[1] \/ ibbox[1] >= qbbox[3]
      \/ ibbox[4] < qbbox[2] \/ ibbox[2] > qbbox[4])

Intersects(ibbox, qbbox) ==
  LET iWest == ibbox[1]
      iSouth == ibbox[2]
      iEast == ibbox[3]
      iNorth == ibbox[4]
      west == qbbox[1]
      south == qbbox[2]
      east == qbbox[3]
      north == qbbox[4]
  IN ~(iEast < west \/ iWest > east \/ iNorth < south \/ iSouth > north)

(***************************************************************************)
(* CachedItem records and the documents they are built from.  An id is a   *)
(* sequence of characters, so that the mission id (its trailing digits)    *)
(* is computed from it.                                                    *)
(***************************************************************************)
Digits == {"0", "1", "2", "3", "4", "5", "6", "7", "8", "9"}

RECURSIVE TailDigits(_)
\* item.id.match(/(\d+)$/): the longest run of digits that ends the id.
TailDigits(id) ==
  IF id = <<>> \/ id[Len(id)] \notin Digits THEN <<>>
  ELSE Append(TailDigits(SubSeq(id, 1, Len(id) - 1)), id[Len(id)])

missionId(id) == IF TailDigits(id) # <<>> THEN TailDigits(id) ELSE id

\* a || b on optional numbers: a when it is truthy (defined and not 0), else b.
OrElse_definedWins(a, b) == IF a # None THEN a ELSE b

OrElse(a, b) == IF a # None /\ a[1] # 0 THEN a ELSE b

EPT_BASE_URL == "https://noaa-nos-coastal-lidar-pds.s3.amazonaws.com/entwine/geoid18"

\* The record rebuildIndex (and _loadCatalog) builds from a fetched item document.
ItemRecord(doc) ==
  [ id |-> doc.id,
    title |-> IF doc.title # None THEN doc.title[1] ELSE doc.id,
    bbox |-> IF Len(doc.bbox) = 6
               THEN <<doc.bbox[1], doc.bbox[2], doc.bbox[4], doc.bbox[5]>>
               ELSE doc.bbox,
    eptUrl |-> <<EPT_BASE_URL, missionId(doc.id), "ept.json">>,
    pointCount |-> OrElse(doc.pcCount, doc.pointcloudCount) ]

(***************************************************************************)
(* JSON.stringify / JSON.parse of the cache entry: a pointCount that is    *)
(* undefined is left out of the text, and reads back as undefined.         *)
(***************************************************************************)
StringifyItem(item) ==
  IF item.pointCount = None
    THEN [id |-> item.id, title |-> item.title, bbox |-> item.bbox, eptUrl |-> item.eptUrl]
    ELSE [id |-> item.id, title |-> item.title, bbox |-> item.bbox, eptUrl |-> item.eptUrl,
          pointCount |-> item.pointCount[1]]

ParseItem(j) ==
  [ id |-> j.id, title |-> j.title, bbox |-> j.bbox, eptUrl |-> j.eptUrl,
    pointCount |-> IF "pointCount" \in DOMAIN j THEN Some(j.pointCount) ELSE None ]

JSONstringify(entry) ==
  [ data |-> [k \in 1..Len(entry.data) |-> StringifyItem(entry.data[k])],
    timestamp |-> entry.timestamp,
    expiresAt |-> entry.expiresAt ]

JSONparse(text) ==
  [ data |-> [k \in 1..Len(text.data) |-> ParseItem(text.data[k])],
    timestamp |-> text.timestamp,
    expiresAt |-> text.expiresAt ]

(***************************************************************************)
(* The cache.  cacheDuration is the constructor's third argument.          *)
(***************************************************************************)
cacheDuration == 1

\* _getFromCache: what it returns (ret), what it leaves in the store, and what
\* it saw (for lastRead).
_getFromCache_keepsExpired ==
  IF ~storageOk \/ localStorage = None
    THEN [ret |-> None, storage |-> localStorage]
    ELSE LET entry == JSONparse(localStorage[1]) IN
      IF now > entry.expiresAt
        THEN [ret |-> None, storage |-> localStorage]
        ELSE [ret |-> Some(entry.data), storage |-> localStorage]

_getFromCache_ignoresFailure ==
  IF localStorage = None
    THEN [ret |-> None, storage |-> localStorage]
    ELSE LET entry == JSONparse(localStorage[1]) IN
      IF now > entry.expiresAt
        THEN [ret |-> None, storage |-> None]
        ELSE [ret |-> Some(entry.data), storage |-> localStorage]

_getFromCache ==
  IF ~storageOk \/ localStorage = None
    THEN [ret |-> None, storage |-> localStorage]
    ELSE LET entry == JSONparse(localStorage[1]) IN
      IF now > entry.expiresAt
        THEN [ret |-> None, storage |-> None]
        ELSE [ret |-> Some(entry.data), storage |-> localStorage]

\* The store holds an entry that can be read and whose expiresAt has passed.
EntryExpired == storageOk /\ localStorage # None /\ now > localStorage[1].expiresAt

\* The ghost record of a read: when it ran, the expiresAt of the entry it found
\* (None when it found none), the records of the last write that had stored, and
\* what it returned.
ReadSeen(g) ==
  Some([ at |-> now,
         last |-> written,
         entry |-> IF storageOk /\ localStorage # None
                     THEN Some(localStorage[1].expiresAt) ELSE None,
         ret |-> g.ret ])

\* _saveToCache(items): the store it leaves; setItem throws when the store cannot
\* be used or is full, and the error is swallowed.
_saveToCache(items, full) ==
  IF ~storageOk \/ full THEN localStorage
  ELSE Some(JSONstringify([data |-> items, timestamp |-> now,
                           expiresAt |-> now + cacheDuration]))

Stored(full) == storageOk /\ ~full

(***************************************************************************)
(* searchByExtent on an array of items.                                    *)
(***************************************************************************)
ValidBox(b) == b[1] <= b[3] /\ b[2] <= b[4]

\* a.pointCount ?? 0
Coalesce(p) == IF p = None THEN 0 ELSE p[1]

\* The comparator handed to sort: negative when a goes before b.
compareFn_ascending(a, b) == Coalesce(a.pointCount) - Coalesce(b.pointCount)

compareFn(a, b) == Coalesce(b.pointCount) - Coalesce(a.pointCount)

RECURSIVE Insert(_, _)
\* x goes after every element that does not have to come after it.
Insert(sorted, x) ==
  IF sorted = <<>> THEN <<x>>
  ELSE IF compareFn(sorted[1], x) > 0 THEN <<x>> \o sorted
  ELSE <<sorted[1]>> \o Insert(Tail(sorted), x)

RECURSIVE Sort(_)
\* Array.prototype.sort with compareFn: a stable sort.
Sort(s) == IF s = <<>> THEN <<>> ELSE Insert(Sort(SubSeq(s, 1, Len(s) - 1)), s[Len(s)])

DefaultLimit == 50

\* The end index of slice(0, limit) on an array of len elements.
SliceEnd_oneMore(len, limit) ==
  IF ~IsFinite(limit) THEN (IF limit = PosInf THEN len ELSE 0)
  ELSE IF limit.v < 0 THEN Max(len + limit.v, 0)
  ELSE Min(limit.v + 1, len)

SliceEnd(len, limit) ==
  IF ~IsFinite(limit) THEN (IF limit = PosInf THEN len ELSE 0)
  ELSE IF limit.v < 0 THEN Max(len + limit.v, 0)
  ELSE Min(limit.v, len)

Feature(item) ==
  [ id |-> item.id, bbox |-> item.bbox, title |-> item.title,
    pcCount |-> item.pointCount, href |-> item.eptUrl ]

\* numberMatched as a buggy search would report it: after the truncation.
Matched_afterSlice(matching, features) == Len(features)

Matched(matching, features) == Len(matching)

\* The body of searchByExtent after the items were obtained; limit is None when
\* the argument is left out.
SearchItems(items, bbox, limit) ==
  LET v == _validateBbox(bbox)
      matching == SelectSeq(items, LAMBDA item : Intersects(item.bbox, v))
      lim == IF limit = None THEN Num(DefaultLimit) ELSE limit[1]
      sorted == SubSeq(Sort(matching), 1, SliceEnd(Len(matching), lim))
      features == [k \in 1..Len(sorted) |-> Feature(sorted[k])]
  IN [ features |-> features,
       numberMatched |-> Matched(matching, features),
       numberReturned |-> Len(features) ]

(***************************************************************************)
(* The bundled pre-built index (data/stac-index.json), a fixed input.      *)
(***************************************************************************)
prebuiltIndex ==
  [ version |-> 1,
    itemCount |-> 2,
    items |-> << [id |-> <<"p", "1">>, title |-> <<"p", "1">>, bbox |-> <<0, 0, 1, 1>>,
                  eptUrl |-> <<EPT_BASE_URL, <<"1">>, "ept.json">>, pointCount |-> Some(2)],
                 [id |-> <<"p", "2">>, title |-> <<"p", "2">>, bbox |-> <<2, 2, 3, 3>>,
                  eptUrl |-> <<EPT_BASE_URL, <<"2">>, "ept.json">>, pointCount |-> None] >> ]

(***************************************************************************)
(* The network: the root catalog and the item documents it links to.       *)
(***************************************************************************)
batchSize == 2
MaxTime == 2
MaxRuns == 2
MaxCallers == 2
MaxRequests == 1

Runs == 1..MaxRuns
Callers == 1..MaxCallers

\* The item document behind each href.
ItemDocs(href) ==
  IF href = "a"
    THEN [ id |-> <<"m", "_", "1", "7">>, title |-> Some(<<"A">>),
           bbox |-> <<0, 0, 1, 1>>, pcCount |-> Some(2), pointcloudCount |-> None ]
    ELSE [ id |-> <<"s", "c">>, title |-> None,
           bbox |-> <<2, 2, 0 - 5, 3, 3, 9>>, pcCount |-> Some(0),
           pointcloudCount |-> Some(5) ]

Link(rel, href) == [rel |-> rel, href |-> href]

\* The root catalogs the server may answer with.
Catalogs ==
  { <<>>,
    <<Link("self", "a"), Link("root", "a")>>,
    <<Link("item", "a"), Link("self", "a"), Link("child", "b")>>,
    <<Link("child", "b"), Link("item", "a"), Link("parent", "b"), Link("item", "a")>> }

\* catalog.links.filter(link => link.rel === 'item' || link.rel === 'child')
ItemLinks(links) == SelectSeq(links, LAMBDA link : link.rel = "item" \/ link.rel = "child")

HttpErrors == {404, 500}

\* The Error thrown when the catalog response is not ok; status is the
\* ${catalogResponse.status} of its message.
CatalogError_noStatus(status) ==
  [message |-> "Failed to fetch NOAA STAC catalog", status |-> None]

CatalogError(status) ==
  [message |-> "Failed to fetch NOAA STAC catalog", status |-> Some(status)]

\* What fetch() or json() rejects with when the request or the parse fails.
OtherError(kind) == [message |-> kind, status |-> None]

\* The first argument of the progress callback after the batch that starts at i.
Progressed_noMin(i, total) == i + batchSize

Progressed(i, total) == Min(i + batchSize, total)

(***************************************************************************)
(* Processes: an invocation of _loadCatalog (lazy class) or rebuildIndex   *)
(* (pre-built class), and a caller awaiting the lazy class's               *)
(* _ensureLoaded.                                                          *)
(***************************************************************************)
IdleRun ==
  [ pc |-> "idle", fn |-> "none", onProgress |-> FALSE, itemLinks |-> <<>>, i |-> 0,
    results |-> <<>>, items |-> <<>>, progress |-> <<>>, failed |-> 0 ]

IdleCaller ==
  [ st |-> "idle", op |-> "none", bbox |-> None, limit |-> None, run |-> 0,
    out |-> None, early |-> FALSE, cleared |-> FALSE ]

Resolved(items) == Some([ok |-> TRUE, items |-> items, error |-> None])
Rejected(err) == Some([ok |-> FALSE, items |-> <<>>, error |-> Some(err)])

Pending(r) == Some([st |-> "pending", run |-> r, error |-> None])
RejectedPromise(err) == Some([st |-> "rejected", run |-> 0, error |-> Some(err)])

\* No getEptUrl call and no control: the parts a specification leaves out.
NoEpt == eptItem = None /\ eptCall = None /\ eptOut = None
NoControl ==
  ctl = None /\ map = None /\ calls = None /\ loads = None /\ trace = None /\ peer = None

\* The state after new StacSearcher(...) of the given class.
Constructed(class) ==
  /\ impl = class
  /\ _items = None
  /\ _loadPromise = None
  /\ runs = [r \in Runs |-> IdleRun]
  /\ callers = [c \in Callers |-> IdleCaller]
  /\ finished = None
  /\ firstOutcome = None
  /\ catalogRequests = 0
  /\ okSearch = FALSE
  /\ okSince = FALSE
  /\ justCleared = FALSE
  /\ query = None
  /\ response = None
  /\ again = "no"
  /\ now = 0
  /\ lastRead = None
  /\ expiredSeen = FALSE

\* An entry an earlier session left in localStorage.
EarlierItems == <<ItemRecord(ItemDocs("a"))>>
EarlierEntry ==
  JSONstringify([data |-> EarlierItems, timestamp |-> 0, expiresAt |-> 0 + cacheDuration])

Init ==
  /\ argBbox = None /\ validBbox = None /\ itemBbox = None /\ hit = None
  /\ NoEpt /\ NoControl
  /\ \E class \in {"lazy", "prebuilt"} : Constructed(class)
  /\ storageOk \in BOOLEAN
  /\ \/ localStorage = None /\ written = None
     \/ localStorage = Some(EarlierEntry) /\ written = Some(EarlierItems)

\* The page is loaded again: a new searcher of the same class over the same
\* localStorage, the processes and callers of the old page gone.
Reload ==
  /\ _items # None \/ finished # None
  /\ impl' = impl
  /\ _items' = None
  /\ _loadPromise' = None
  /\ runs' = [r \in Runs |-> IdleRun]
  /\ callers' = [c \in Callers |-> IdleCaller]
  /\ finished' = None
  /\ firstOutcome' = None
  /\ okSearch' = FALSE
  /\ okSince' = FALSE
  /\ justCleared' = FALSE
  /\ query' = None
  /\ response' = None
  /\ again' = "no"
  /\ lastRead' = None
  /\ UNCHANGED <<bboxVars, eptVars, ctlVars, storageOk, now, localStorage, written, expiredSeen,
                 catalogRequests>>

Tick ==
  /\ now < MaxTime
  /\ now' = now + 1
  /\ UNCHANGED <<bboxVars, eptVars, ctlVars, storageOk, localStorage, lastRead, written, expiredSeen,
                 searchVars, procVars>>

\* this._items = null
Dropped_not == _items

Dropped == None

\* clearCache (both classes).
ClearCache ==
  /\ localStorage' = IF storageOk THEN None ELSE localStorage
  /\ _items' = Dropped
  /\ okSearch' = FALSE
  /\ okSince' = FALSE
  /\ justCleared' = TRUE
  /\ callers' = [c \in Callers |->
                   IF callers[c].st = "idle" THEN callers[c]
                   ELSE [callers[c] EXCEPT !.cleared = TRUE]]
  /\ UNCHANGED <<bboxVars, eptVars, ctlVars, storageOk, now, lastRead, written, expiredSeen, impl, query,
                 response, again, _loadPromise, runs, finished, firstOutcome,
                 catalogRequests>>

\* The effect of a _getFromCache call on the store and on the ghosts of reads.
CacheRead(g) ==
  /\ localStorage' = g.storage
  /\ lastRead' = ReadSeen(g)
  /\ expiredSeen' = (expiredSeen \/ EntryExpired)

\* _loadItems of the pre-built class: the fresh cache entry, else the bundled index.
_loadItems_snapshotOnly(g) == prebuiltIndex.items

_loadItems(g) == IF g.ret # None THEN g.ret[1] ELSE prebuiltIndex.items

\* Whether this search repeats the last completed call on the memoized index, and
\* whether it then returns what that call returned.
Repeated(items, bbox, limit) ==
  IF /\ _items = Some(items)
     /\ query = Some([op |-> "searchByExtent", bbox |-> bbox, limit |-> limit])
    THEN (IF response = Some(SearchItems(items, bbox, limit)) THEN "same" ELSE "differs")
    ELSE "no"

\* What searchByExtent, getAllItems or getCount returns once it has the items.
Answer(op, items, bbox, limit) ==
  IF op = "searchByExtent" THEN SearchItems(items, bbox, limit)
  ELSE IF op = "getAllItems" THEN [items |-> items]
  ELSE [count |-> Len(items)]

\* this._items = items
Memoized_not(items) == None

Memoized(items) == Some(items)

\* searchByExtent, getAllItems or getCount of the pre-built class; _ensureLoaded
\* is synchronous there, and the call runs to its end in one step.
CallPrebuilt(op, bbox, limit) ==
  /\ impl = "prebuilt"
  /\ LET g == _getFromCache
         items == IF _items # None THEN _items[1] ELSE _loadItems(g)
     IN /\ _items' = Memoized(items)
        /\ IF _items # None
             THEN UNCHANGED <<localStorage, lastRead, expiredSeen>>
             ELSE CacheRead(g)
        /\ query' = Some([op |-> op, bbox |-> bbox, limit |-> limit])
        /\ response' = Some(Answer(op, items, bbox, limit))
        /\ again' = IF op = "searchByExtent" THEN Repeated(items, bbox, limit) ELSE "no"
        /\ okSearch' = (okSearch \/ op = "searchByExtent")
        /\ okSince' = (okSince \/ op = "searchByExtent")
        /\ justCleared' = FALSE
  /\ UNCHANGED <<bboxVars, eptVars, ctlVars, impl, storageOk, now, written, _loadPromise, runs, callers,
                 finished, firstOutcome, catalogRequests>>

SearchByExtent(bbox, limit) == CallPrebuilt("searchByExtent", bbox, limit)

\* The lowest process slot that is free.
FreeRun == CHOOSE r \in Runs : runs[r].pc = "idle" /\ \A q \in 1..(r - 1) : runs[q].pc # "idle"

\* if (!this._loadPromise): _ensureLoaded of the lazy class starts a load.
StartsLoad_always == TRUE

StartsLoad == _loadPromise = None

\* searchByExtent, getAllItems or getCount of the lazy class, up to the await of
\* _ensureLoaded().
CallLazy(c, op, bbox, limit) ==
  /\ impl = "lazy"
  /\ callers[c].st = "idle"
  /\ LET me == [IdleCaller EXCEPT !.op = op, !.bbox = bbox, !.limit = limit,
                                  !.early = (_items = None /\ firstOutcome = None)]
     IN
     IF _items # None THEN
       \* if (this._items) return this._items
       /\ callers' = [callers EXCEPT ![c] = [me EXCEPT !.st = "ready",
                                                       !.out = Resolved(_items[1])]]
       /\ UNCHANGED <<runs, _loadPromise, localStorage, lastRead, expiredSeen,
                      catalogRequests>>
     ELSE IF StartsLoad THEN
       \* this._loadPromise = this._loadCatalog().then(...): runs to its first await
       /\ \E r \in Runs : runs[r].pc = "idle"
       /\ LET g == _getFromCache
              r == FreeRun
          IN /\ CacheRead(g)
             /\ IF g.ret # None THEN UNCHANGED catalogRequests
                ELSE /\ catalogRequests < MaxRequests
                     /\ catalogRequests' = catalogRequests + 1
             /\ runs' = [runs EXCEPT ![r] =
                  IF g.ret # None
                    THEN [IdleRun EXCEPT !.pc = "hit", !.fn = "_loadCatalog",
                                         !.items = g.ret[1]]
                    ELSE [IdleRun EXCEPT !.pc = "catalog", !.fn = "_loadCatalog"]]
             /\ _loadPromise' = Pending(r)
             /\ callers' = [callers EXCEPT ![c] = [me EXCEPT !.st = "waiting", !.run = r]]
     ELSE
       \* return this._loadPromise
       /\ _loadPromise # None
       /\ IF _loadPromise[1].st = "pending"
            THEN callers' = [callers EXCEPT ![c] =
                               [me EXCEPT !.st = "waiting", !.run = _loadPromise[1].run]]
            ELSE callers' = [callers EXCEPT ![c] =
                               [me EXCEPT !.st = "ready",
                                          !.out = Rejected(_loadPromise[1].error[1])]]
       /\ UNCHANGED <<runs, _loadPromise, localStorage, lastRead, expiredSeen,
                      catalogRequests>>
  /\ justCleared' = FALSE
  /\ UNCHANGED <<bboxVars, eptVars, ctlVars, storageOk, now, written, impl, _items, query, response, again,
                 finished, firstOutcome, okSearch, okSince>>

\* The rest of the lazy class's call, after the await.
Resume(c) ==
  /\ callers[c].st = "ready"
  /\ LET me == callers[c]
         out == me.out[1]
     IN /\ query' = Some([op |-> me.op, bbox |-> me.bbox, limit |-> me.limit])
        /\ response' = IF out.ok THEN Some(Answer(me.op, out.items, me.bbox, me.limit))
                       ELSE Some([error |-> out.error[1]])
        /\ again' = IF out.ok /\ me.op = "searchByExtent"
                      THEN Repeated(out.items, me.bbox, me.limit) ELSE "no"
        /\ okSearch' = (okSearch \/ (out.ok /\ me.op = "searchByExtent"))
        /\ okSince' = (okSince \/ (out.ok /\ me.op = "searchByExtent" /\ ~me.cleared))
  /\ callers' = [callers EXCEPT ![c] = IdleCaller]
  /\ UNCHANGED <<bboxVars, eptVars, ctlVars, cacheVars, impl, _items, _loadPromise, runs, finished,
                 firstOutcome, catalogRequests, justCleared>>

\* The ghost record of a process that has ended.
Ended(run, outcome, status, items, progress, failed, err) ==
  Some([ fn |-> run.fn, outcome |-> outcome, catalogStatus |-> status,
         links |-> Len(run.itemLinks), onProgress |-> run.onProgress,
         count |-> Len(items), stored |-> FALSE,
         progress |-> progress, failed |-> failed, error |-> err ])

\* Callers that await process r are handed what it settled with.
Settle(r, out) ==
  [c \in Callers |->
     IF callers[c].st = "waiting" /\ callers[c].run = r
       THEN [callers[c] EXCEPT !.st = "ready", !.out = out]
       ELSE callers[c]]

FirstOutcome(run, out) ==
  IF firstOutcome = None /\ run.fn = "_loadCatalog" THEN out ELSE firstOutcome

\* Process r returns items: rebuildIndex installs them itself, the lazy class in
\* the callback it chained to _loadCatalog().
Return(r, items) ==
  /\ runs' = [runs EXCEPT ![r] = IdleRun]
  /\ _items' = Memoized(items)
  /\ _loadPromise' = IF runs[r].fn = "_loadCatalog" THEN None ELSE _loadPromise
  /\ callers' = Settle(r, Resolved(items))
  /\ firstOutcome' = FirstOutcome(runs[r], Resolved(items))

\* A failure that takes the memoized index along.
Throw_dropsIndex(r, err, status) ==
  /\ runs' = [runs EXCEPT ![r] = IdleRun]
  /\ finished' = Ended(runs[r], "rejected", status, <<>>, runs[r].progress,
                       runs[r].failed, Some(err))
  /\ _loadPromise' = IF _loadPromise = Pending(r) THEN RejectedPromise(err)
                     ELSE _loadPromise
  /\ callers' = Settle(r, Rejected(err))
  /\ firstOutcome' = FirstOutcome(runs[r], Rejected(err))
  /\ _items' = None
  /\ UNCHANGED cacheVars

\* Process r throws err.
Throw(r, err, status) ==
  /\ runs' = [runs EXCEPT ![r] = IdleRun]
  /\ finished' = Ended(runs[r], "rejected", status, <<>>, runs[r].progress,
                       runs[r].failed, Some(err))
  /\ _loadPromise' = IF _loadPromise = Pending(r) THEN RejectedPromise(err)
                     ELSE _loadPromise
  /\ callers' = Settle(r, Rejected(err))
  /\ firstOutcome' = FirstOutcome(runs[r], Rejected(err))
  /\ UNCHANGED <<cacheVars, _items>>

\* The end of _loadCatalog and rebuildIndex: _saveToCache(items), then return.
SaveAndReturn(r, items, progress, failed) ==
  /\ \E full \in (IF storageOk THEN BOOLEAN ELSE {FALSE}) :
       /\ localStorage' = _saveToCache(items, full)
       /\ written' = IF Stored(full) THEN Some(items) ELSE written
       /\ expiredSeen' = IF Stored(full) THEN FALSE ELSE expiredSeen
       /\ finished' = Some([Ended(runs[r], "resolved", Some(200), items, progress,
                                  failed, None)[1] EXCEPT !.stored = Stored(full)])
  /\ Return(r, items)
  /\ UNCHANGED <<storageOk, now, lastRead>>

\* The lazy class found a fresh cache entry: the callback chained to
\* _loadCatalog() runs.
LoadFromCache(r) ==
  /\ runs[r].pc = "hit"
  /\ finished' = Ended(runs[r], "resolved", None, runs[r].items, <<>>, 0, None)
  /\ Return(r, runs[r].items)
  /\ UNCHANGED <<bboxVars, eptVars, ctlVars, cacheVars, impl, query, response, again, catalogRequests,
                 okSearch, okSince, justCleared>>

\* rebuildIndex(onProgress) of the pre-built class, up to the await of the fetch.
\* The caller awaits one rebuild before it asks for the next.
RebuildIndex(onProgress) ==
  /\ impl = "prebuilt"
  /\ \A r \in Runs : runs[r].pc = "idle"
  /\ catalogRequests < MaxRequests
  /\ catalogRequests' = catalogRequests + 1
  /\ runs' = [runs EXCEPT ![FreeRun] =
                [IdleRun EXCEPT !.pc = "catalog", !.fn = "rebuildIndex",
                                !.onProgress = onProgress]]
  /\ UNCHANGED <<bboxVars, eptVars, ctlVars, cacheVars, searchVars, _loadPromise, callers, finished,
                 firstOutcome, okSearch, okSince, justCleared>>

\* Every remaining request at once.
Batch_unbounded(links, i) ==
  [k \in 1..(Len(links) - i) |-> [st |-> "pending", item |-> None]]

\* The requests of the batch that starts at i, all outstanding.
Batch(links, i) ==
  [k \in 1..(Min(i + batchSize, Len(links)) - i) |-> [st |-> "pending", item |-> None]]

\* The response to the catalog request of process r arrives.
CatalogResponse(r) ==
  /\ runs[r].pc = "catalog"
  /\ \/ \E status \in HttpErrors : Throw(r, CatalogError(status), Some(status))
     \/ Throw(r, OtherError("TypeError: Failed to fetch"), None)
     \/ \E links \in Catalogs :
          LET itemLinks == ItemLinks(links) IN
          IF itemLinks = <<>>
            THEN SaveAndReturn(r, <<>>, <<>>, 0)
            ELSE /\ runs' = [runs EXCEPT ![r] =
                       [@ EXCEPT !.pc = "batch", !.itemLinks = itemLinks, !.i = 0,
                                 !.results = Batch(itemLinks, 0)]]
                 /\ UNCHANGED <<cacheVars, _items, _loadPromise, callers, finished,
                                firstOutcome>>
  /\ UNCHANGED <<bboxVars, eptVars, ctlVars, impl, query, response, again, catalogRequests, okSearch,
                 okSince, justCleared>>

\* The non-null results of a batch, in the order of its links.
Fetched(results) ==
  LET got == SelectSeq(results, LAMBDA x : x.st = "item")
  IN [k \in 1..Len(got) |-> got[k].item[1]]

\* The k-th request of the batch of process r settles; when it is the last one
\* outstanding, the loop body goes on after Promise.all.
ItemResponse(r, k) ==
  /\ runs[r].pc = "batch"
  /\ k \in 1..Len(runs[r].results)
  /\ runs[r].results[k].st = "pending"
  /\ \E outcome \in {"ok", "not ok", "network error", "unparsable"} :
       LET run == runs[r]
           doc == ItemDocs(run.itemLinks[run.i + k].href)
           res == IF outcome = "ok" THEN [st |-> "item", item |-> Some(ItemRecord(doc))]
                  ELSE [st |-> "null", item |-> None]
           results == [run.results EXCEPT ![k] = res]
           failed == run.failed + (IF outcome = "ok" THEN 0 ELSE 1)
           total == Len(run.itemLinks)
       IN
       IF \E j \in 1..Len(results) : results[j].st = "pending" THEN
         /\ runs' = [runs EXCEPT ![r] = [@ EXCEPT !.results = results, !.failed = failed]]
         /\ UNCHANGED <<cacheVars, _items, _loadPromise, callers, finished, firstOutcome>>
       ELSE
         LET items == run.items \o Fetched(results)
             progress == IF run.onProgress
                           THEN Append(run.progress, <<Progressed(run.i, total), total>>)
                           ELSE run.progress
             i == run.i + batchSize
         IN
         IF i < total THEN
           /\ runs' = [runs EXCEPT ![r] =
                [@ EXCEPT !.i = i, !.results = Batch(run.itemLinks, i), !.items = items,
                          !.progress = progress, !.failed = failed]]
           /\ UNCHANGED <<cacheVars, _items, _loadPromise, callers, finished,
                          firstOutcome>>
         ELSE SaveAndReturn(r, items, progress, failed)
  /\ UNCHANGED <<bboxVars, eptVars, ctlVars, impl, query, response, again, catalogRequests, okSearch,
                 okSince, justCleared>>

\* The calls made on the searcher in Spec.
SpecCalls ==
  { [op |-> "searchByExtent", bbox |-> <<Num(0), Num(0), Num(1), Num(1)>>, limit |-> None],
    [op |-> "getAllItems", bbox |-> None, limit |-> None],
    [op |-> "getCount", bbox |-> None, limit |-> None] }

Next ==
  \/ Tick
  \/ Reload
  \/ ClearCache
  \/ \E a \in SpecCalls : CallPrebuilt(a.op, a.bbox, a.limit)
  \/ \E c \in Callers, a \in SpecCalls : CallLazy(c, a.op, a.bbox, a.limit)
  \/ \E c \in Callers : Resume(c)
  \/ \E r \in Runs : LoadFromCache(r)
  \/ \E p \in BOOLEAN : RebuildIndex(p)
  \/ \E r \in Runs : CatalogResponse(r)
  \/ \E r \in Runs, k \in 1..batchSize : ItemResponse(r, k)

Spec == Init /\ [][Next]_vars

(***************************************************************************)
(* Two searchers on one page.  CACHE_KEY is a constant of the module, so   *)
(* the searchers of a page read and write the same entry of localStorage,  *)
(* whatever catalog URL each was constructed with.                         *)
(***************************************************************************)

\* The catalog the second searcher is constructed for.
OtherCatalog == "https://example.org/stac/catalog.json"

\* new StacSearcher(OtherCatalog) of the pre-built class.
NewPeer ==
  [_catalogUrl |-> OtherCatalog, _items |-> None, query |-> None, response |-> None]

\* searchByExtent on the second searcher.
PeerSearch(bbox, limit) ==
  /\ LET g == _getFromCache
         items == IF peer._items # None THEN peer._items[1] ELSE _loadItems(g)
     IN /\ peer' = [peer EXCEPT !._items = Memoized(items),
                                !.query = Some([bbox |-> bbox, limit |-> limit]),
                                !.response = Some(SearchItems(items, bbox, limit))]
        /\ IF peer._items # None
             THEN UNCHANGED <<localStorage, lastRead, expiredSeen>>
             ELSE CacheRead(g)
  /\ UNCHANGED <<bboxVars, eptVars, ctl, map, calls, loads, trace, storageOk, now, written,
                 searchVars, procVars>>

\* clearCache on the second searcher.
PeerClearCache ==
  /\ localStorage' = IF storageOk THEN None ELSE localStorage
  /\ peer' = [peer EXCEPT !._items = Dropped]
  /\ UNCHANGED <<bboxVars, eptVars, ctl, map, calls, loads, trace, storageOk, now, lastRead,
                 written, expiredSeen, searchVars, procVars>>

\* getIndexInfo (pre-built class): what it returns and the store it leaves.
getIndexInfo ==
  LET g == _getFromCache IN
  [ ret |-> IF g.ret # None
              THEN [source |-> "cached", itemCount |-> Len(g.ret[1])]
              ELSE [source |-> "prebuilt", itemCount |-> prebuiltIndex.itemCount],
    storage |-> g.storage ]

\* getIndexInfo() on the first searcher.
GetIndexInfo ==
  /\ impl = "prebuilt"
  /\ CacheRead(_getFromCache)
  /\ query' = Some([op |-> "getIndexInfo", bbox |-> None, limit |-> None])
  /\ response' = Some(getIndexInfo.ret)
  /\ again' = "no"
  /\ UNCHANGED <<bboxVars, eptVars, ctlVars, storageOk, now, written, impl, _items, procVars>>

\* The search made on either searcher.
SharedCall == CHOOSE a \in SpecCalls : a.op = "searchByExtent"

InitShared ==
  /\ argBbox = None /\ validBbox = None /\ itemBbox = None /\ hit = None
  /\ NoEpt
  /\ ctl = None /\ map = None /\ calls = None /\ loads = None /\ trace = None
  /\ peer = NewPeer
  /\ Constructed("prebuilt")
  /\ storageOk = TRUE
  /\ localStorage = None
  /\ written = None

NextShared ==
  \/ Tick
  \/ ClearCache
  \/ CallPrebuilt(SharedCall.op, SharedCall.bbox, SharedCall.limit)
  \/ RebuildIndex(FALSE)
  \/ \E r \in Runs : CatalogResponse(r)
  \/ \E r \in Runs, k \in 1..batchSize : ItemResponse(r, k)
  \/ PeerSearch(SharedCall.bbox, SharedCall.limit)
  \/ PeerClearCache
  \/ GetIndexInfo

\* A searcher of the default catalog and one of another catalog.
SpecShared == InitShared /\ [][NextShared]_vars

(***************************************************************************)
(* Properties of Spec.                                                     *)
(***************************************************************************)
\* The last completed call was a searchByExtent that returned a response.
SearchDone ==
  /\ query # None
  /\ query[1].op = "searchByExtent"
  /\ response # None
  /\ "features" \in DOMAIN response[1]

Active == {r \in Runs : runs[r].pc # "idle"}

\* The callers that asked for the index while none was memoized and before the
\* first load had settled, and have not been answered yet.
Early == {c \in Callers : callers[c].st # "idle" /\ callers[c].early}

\* C1: the callers that ask for the index (searchByExtent, getAllItems, getCount)
\* while none is memoized and before the first load has settled start exactly
\* one load between them, and each of them receives what that load settled with.
C1_EarlyCallersShareOneLoad ==
  impl = "lazy" =>
    /\ firstOutcome = None =>
         /\ Cardinality(Active) <= 1
         /\ \A c \in Early :
              /\ callers[c].st = "waiting"
              /\ Active = {callers[c].run}
              /\ _loadPromise = Pending(callers[c].run)
    /\ firstOutcome # None =>
         \A c \in Early : callers[c].st = "ready" /\ callers[c].out = firstOutcome

\* Two callers hold the records of the one load that both awaited.
C1_Witness ==
  /\ impl = "lazy"
  /\ catalogRequests = 1
  /\ Early = Callers
  /\ \A c \in Callers : /\ callers[c].st = "ready"
                        /\ callers[c].out = firstOutcome
                        /\ callers[c].out[1].ok
                        /\ Len(callers[c].out[1].items) = 2

\* C2: a read at now > expiresAt returns nothing and removes the entry, so that
\* later reads return nothing until an entry is stored again; a read at
\* now <= expiresAt returns the records of the last write that stored.
C2_ExpiredEntryAbsentFreshEntryReturned ==
  /\ expiredSeen => localStorage = None
  /\ lastRead # None =>
       LET rd == lastRead[1] IN
       IF rd.entry = None THEN rd.ret = None
       ELSE IF rd.at > rd.entry[1] THEN rd.ret = None
       ELSE rd.ret = rd.last

\* The last read found an entry that this session wrote and that had expired.
C2_Witness ==
  /\ lastRead # None
  /\ lastRead[1].entry # None
  /\ lastRead[1].at > lastRead[1].entry[1]
  /\ lastRead[1].ret = None
  /\ localStorage = None
  /\ written # None /\ written # Some(EarlierItems)

\* A rebuild whose root catalog was fetched and parsed has ended.
Rebuilt ==
  /\ finished # None
  /\ finished[1].fn = "rebuildIndex"
  /\ finished[1].catalogStatus = Some(200)

LastOf(seq) == seq[Len(seq)]

\* C5 as stated: a rebuild over N item/child links of which K fail resolves with
\* N-K records, and the last call of the progress callback is (N, N).
C5_RebuildReportsAllOfAnyCatalog ==
  (Rebuilt /\ finished[1].onProgress) =>
    LET f == finished[1] IN
    /\ f.outcome = "resolved"
    /\ f.count = f.links - f.failed
    /\ f.progress # <<>>
    /\ LastOf(f.progress) = <<f.links, f.links>>

\* C5 amended: a rebuild over N item/child links of which K fail resolves with
\* N-K records; when N > 0 and a progress callback was passed, its last call is
\* (N, N); when N = 0 it is not called at all.
C5_RebuildReportsAllOfNonEmptyCatalog ==
  Rebuilt =>
    LET f == finished[1] IN
    /\ f.outcome = "resolved"
    /\ f.count = f.links - f.failed
    /\ IF f.onProgress /\ f.links > 0
         THEN f.progress # <<>> /\ LastOf(f.progress) = <<f.links, f.links>>
         ELSE f.progress = <<>>

\* A rebuild over three links, one of them failed, has reported two batches.
C5_Witness ==
  /\ Rebuilt
  /\ finished[1].onProgress
  /\ finished[1].links = 3
  /\ finished[1].failed = 1
  /\ finished[1].count = 2
  /\ Len(finished[1].progress) = 2

\* The root catalog request of the process that ended last had a non-success
\* HTTP status.
CatalogRefused ==
  /\ finished # None
  /\ finished[1].catalogStatus # None
  /\ finished[1].catalogStatus[1] \in HttpErrors

Failed(resp) == resp # None /\ "error" \in DOMAIN resp[1]

\* C9: when the root catalog request returns a non-success HTTP status, the
\* operation that needed it (rebuildIndex, or a call of the lazy class that has
\* to load the catalog) rejects with an error that carries that status.
C9_RefusedCatalogRejectsWithStatus ==
  CatalogRefused =>
    LET f == finished[1] IN
    /\ f.outcome = "rejected"
    /\ f.error # None
    /\ f.error[1].status = f.catalogStatus
    /\ \A c \in Callers :
         /\ callers[c].st = "waiting" => runs[callers[c].run].pc # "idle"
         /\ (callers[c].st = "ready" /\ ~callers[c].out[1].ok) =>
              callers[c].out[1].error = f.error
    /\ Failed(response) => response[1].error = f.error[1]

\* A search of the lazy class has thrown the error of a catalog answered with 500.
C9_Witness ==
  /\ impl = "lazy"
  /\ CatalogRefused
  /\ finished[1].catalogStatus = Some(500)
  /\ query # None /\ query[1].op = "searchByExtent"
  /\ Failed(response)
  /\ response[1].error.status = Some(500)

\* A step that calls searchByExtent.
SearchCalled ==
  \E a \in SpecCalls :
    /\ a.op = "searchByExtent"
    /\ \/ CallPrebuilt(a.op, a.bbox, a.limit)
       \/ \E c \in Callers : CallLazy(c, a.op, a.bbox, a.limit)

NoRequest == UNCHANGED <<catalogRequests, runs, _loadPromise>>

\* C10 as stated: once a search has completed successfully, a later search with
\* no clearCache in between issues no network request.
C10_NoRequestAfterCompletedSearch ==
  [][(okSearch /\ SearchCalled) => NoRequest]_vars

\* C10 amended: once a search has completed successfully, a later search with no
\* clearCache since that search was called issues no network request.
C10_NoRequestAfterSearchCalledSinceClear ==
  [][(okSince /\ SearchCalled) => NoRequest]_vars

\* A search is being called on a lazy searcher whose earlier search loaded the
\* catalog from the network.
C10_Witness ==
  /\ impl = "lazy"
  /\ okSince
  /\ catalogRequests = 1
  /\ \E c \in Callers : /\ callers[c].op = "searchByExtent"
                        /\ callers[c].st = "ready"
                        /\ ~callers[c].early

\* A step on which clearCache is called (the first since the index was asked for).
Cleared == ~justCleared /\ justCleared'

\* A step that starts a load which requests the root catalog.
FreshLoadStarted ==
  /\ catalogRequests' = catalogRequests + 1
  /\ \E r \in Runs : runs[r].pc = "idle" /\ runs'[r].pc = "catalog"

FreshEntry == storageOk /\ localStorage # None /\ now <= localStorage[1].expiresAt

\* The first call on a pre-built searcher that holds no index is a search.
FirstSearch == impl = "prebuilt" /\ query = None /\ _items = None /\ SearchCalled

RebuiltUnstored == Rebuilt /\ ~finished[1].stored

\* A step on which a rebuild resolves.
RebuildResolves ==
  /\ finished' # None
  /\ finished' # finished
  /\ finished'[1].fn = "rebuildIndex"
  /\ finished'[1].outcome = "resolved"

\* C13: when the store fails on read or on write, no error reaches the caller:
\* a read is treated as absent, a rebuild still resolves with the fetched
\* records and installs them as the index that later searches answer from, and
\* the only errors calls end with are those of the catalog request.
C13_StoreFailuresAreSwallowed ==
  /\ [](/\ (~storageOk /\ lastRead # None) => lastRead[1].ret = None
        /\ RebuiltUnstored =>
             /\ finished[1].outcome = "resolved"
             /\ finished[1].count = finished[1].links - finished[1].failed
        /\ Failed(response) =>
             /\ finished # None /\ finished[1].outcome = "rejected"
             /\ response[1].error = finished[1].error[1])
  /\ [][/\ RebuildResolves =>
             (_items' # None /\ Len(_items'[1]) = finished'[1].count)
        /\ (impl = "prebuilt" /\ _items # None /\ SearchCalled) =>
             response' = Some(SearchItems(_items[1], query'[1].bbox, query'[1].limit))
       ]_vars

\* With a store that throws on every call, a read found nothing although an
\* entry exists, a rebuild resolved with two records, and a search answered
\* from them.
C13_Witness ==
  /\ ~storageOk
  /\ localStorage # None
  /\ lastRead # None /\ lastRead[1].ret = None
  /\ RebuiltUnstored
  /\ finished[1].count = 2
  /\ _items # None /\ Len(_items[1]) = 2
  /\ SearchDone
  /\ response[1].numberMatched = 1

(***************************************************************************)
(* SpecSearch: searchByExtent applied to indexes, boxes and limits drawn    *)
(* from bounded sets.  The index is one a rebuild or a cache entry can     *)
(* have installed; its ids are its positions.                              *)
(***************************************************************************)
MaxIndex == 2

RecordBboxes == {<<0, 0, 1, 1>>, <<1, 0, 2, 2>>, <<2, 0, 1, 1>>}
RecordCounts == {None, Some(0), Some(2)}

DigitOf(k) == <<"1", "2", "3", "4", "5", "6", "7", "8", "9">>[k]

IndexRecord(k, b, c) ==
  [ id |-> <<"r", DigitOf(k)>>, title |-> <<"r", DigitOf(k)>>, bbox |-> b,
    eptUrl |-> <<EPT_BASE_URL, <<DigitOf(k)>>, "ept.json">>, pointCount |-> c ]

Indexes ==
  UNION { { [k \in 1..n |-> IndexRecord(k, bs[k], cs[k])] :
              bs \in [1..n -> RecordBboxes], cs \in [1..n -> RecordCounts] } :
          n \in 0..MaxIndex }

\* One axis of a query box: (low, high) as the caller gives them.
QueryAxes == {<<Num(1), Num(1)>>, <<Num(1), Num(2)>>, <<Num(2), Num(1)>>,
              <<NaN, NegInf>>, <<Num(3), Num(200)>>}
QueryBboxes == {<<x[1], y[1], x[2], y[2]>> : x \in QueryAxes, y \in QueryAxes}
Limits == {None, Some(Num(0)), Some(Num(1)), Some(Num(0 - 1)), Some(NaN), Some(PosInf)}

InitSearch ==
  /\ argBbox = None /\ validBbox = None /\ itemBbox = None /\ hit = None
  /\ NoEpt /\ NoControl
  /\ impl = "prebuilt"
  /\ _items \in {Some(ix) : ix \in Indexes}
  /\ _loadPromise = None
  /\ runs = [r \in Runs |-> IdleRun]
  /\ callers = [c \in Callers |-> IdleCaller]
  /\ finished = None
  /\ firstOutcome = None
  /\ catalogRequests = 0
  /\ okSearch = FALSE
  /\ okSince = FALSE
  /\ justCleared = FALSE
  /\ query = None
  /\ response = None
  /\ again = "no"
  /\ now = 0
  /\ storageOk = TRUE
  /\ localStorage = None
  /\ lastRead = None
  /\ written = None
  /\ expiredSeen = FALSE

\* Any search, and then the same search once more.
NextSearch ==
  \E b \in QueryBboxes, l \in Limits :
    /\ IF query = None THEN TRUE
       ELSE again = "no" /\ query[1].bbox = b /\ query[1].limit = l
    /\ SearchByExtent(b, l)

SpecSearch == InitSearch /\ [][NextSearch]_vars

\* n <= x for a JS number x.
LeqJS(n, x) == IF IsFinite(x) THEN n <= x.v ELSE x = PosInf

\* The limit the last search ran with: the argument, or the default.
LimitUsed == IF query[1].limit = None THEN Num(DefaultLimit) ELSE query[1].limit[1]

(***************************************************************************)
(* C3 (as stated): for every record set, query box and limit value,        *)
(* numberReturned <= limit, numberReturned <= numberMatched, and           *)
(* numberReturned is the length of the feature sequence.                   *)
(***************************************************************************)
C3_ReturnedWithinAnyLimit ==
  SearchDone =>
    /\ LeqJS(response[1].numberReturned, LimitUsed)
    /\ response[1].numberReturned <= response[1].numberMatched
    /\ response[1].numberReturned = Len(response[1].features)

(***************************************************************************)
(* C3 (amended): for every record set, query box and limit value,          *)
(* numberReturned <= numberMatched and numberReturned is the length of the *)
(* feature sequence; numberReturned <= limit holds for every limit that is *)
(* left out, +Infinity or a number >= 0 (a limit of -k drops the last k    *)
(* matches and NaN returns none, so there numberReturned <= limit fails).  *)
(***************************************************************************)
C3_ReturnedWithinNonNegativeLimit ==
  SearchDone =>
    /\ response[1].numberReturned <= response[1].numberMatched
    /\ response[1].numberReturned = Len(response[1].features)
    /\ (LimitUsed = PosInf \/ (IsFinite(LimitUsed) /\ LimitUsed.v >= 0))
         => LeqJS(response[1].numberReturned, LimitUsed)

\* A search with limit 1 matched two records and returned one of them.
C3_Witness ==
  /\ SearchDone
  /\ query[1].limit = Some(Num(1))
  /\ response[1].numberMatched = 2
  /\ response[1].numberReturned = 1

\* The position in the memoized index of the record a feature was made from.
PositionOf(f) == CHOOSE p \in 1..Len(_items[1]) : _items[1][p].id = f.id

\* Feature f ranks before feature g: more points, or as many and earlier in the index.
RanksBefore(f, g) ==
  \/ Coalesce(f.pcCount) > Coalesce(g.pcCount)
  \/ Coalesce(f.pcCount) = Coalesce(g.pcCount) /\ PositionOf(f) < PositionOf(g)

(***************************************************************************)
(* C4: searchByExtent returns matching records ordered by pointCount       *)
(* descending, an absent pointCount counting as zero; records with equal   *)
(* pointCount keep their order from the index; what is cut off by the      *)
(* limit ranks after what is returned; and a search repeated with the same *)
(* box and limit on the unchanged index returns the same sequence.         *)
(***************************************************************************)
C4_RankedStableDeterministic ==
  SearchDone =>
    LET f == response[1].features
        ix == _items[1]
        v == _validateBbox(query[1].bbox)
    IN /\ \A k \in 1..Len(f) :
            /\ \E p \in 1..Len(ix) : f[k] = Feature(ix[p])
            /\ Intersects(f[k].bbox, v)
       /\ \A k \in 1..(Len(f) - 1) : RanksBefore(f[k], f[k + 1])
       /\ \A p \in 1..Len(ix) :
            (Intersects(ix[p].bbox, v) /\ (\A k \in 1..Len(f) : f[k] # Feature(ix[p])))
              => \A k \in 1..Len(f) : RanksBefore(f[k], Feature(ix[p]))
       /\ again # "differs"

\* Two records tie (an absent count and a count of 0), came back in index order
\* behind nothing, and the repeated search returned the same response.
C4_Witness ==
  /\ SearchDone
  /\ again = "same"
  /\ Len(response[1].features) = 2
  /\ response[1].features[1].pcCount = None
  /\ response[1].features[2].pcCount = Some(0)
  /\ PositionOf(response[1].features[1]) < PositionOf(response[1].features[2])

\* Closed intervals [a1, a2] and [b1, b2] have a point in common.
Overlap1D(a1, a2, b1, b2) ==
  \E x \in {a1, a2, b1, b2} : a1 <= x /\ x <= a2 /\ b1 <= x /\ x <= b2

\* Boxes overlap as closed intervals on both axes.
Overlaps(a, b) ==
  /\ Overlap1D(a[1], a[3], b[1], b[3])
  /\ Overlap1D(a[2], a[4], b[2], b[4])

\* The index positions whose box overlaps the clamped box of the last search.
Overlapping ==
  {p \in 1..Len(_items[1]) : Overlaps(_items[1][p].bbox, _validateBbox(query[1].bbox))}

(***************************************************************************)
(* C8 (as stated): numberMatched counts exactly the index records whose    *)
(* box overlaps the clamped query box as closed intervals on both axes,    *)
(* whatever the limit; when no record overlaps, numberMatched = 0 and no   *)
(* feature is returned.                                                    *)
(***************************************************************************)
C8_MatchedIsOverlapCount ==
  SearchDone =>
    /\ response[1].numberMatched = Cardinality(Overlapping)
    /\ Overlapping = {} => response[1].features = <<>>

(***************************************************************************)
(* C8 (amended): when the clamped query box and the boxes of the index     *)
(* records have west <= east and south <= north, numberMatched counts      *)
(* exactly the records whose box overlaps the clamped query box as closed  *)
(* intervals on both axes, whatever the limit, and is 0 with no feature    *)
(* when none overlaps.  (A box with west > east is an empty interval, yet  *)
(* the test matches it against every box that spans from east to west.)    *)
(***************************************************************************)
C8_MatchedIsOverlapCountOfOrderedBoxes ==
  (/\ SearchDone
   /\ ValidBox(_validateBbox(query[1].bbox))
   /\ \A p \in 1..Len(_items[1]) : ValidBox(_items[1][p].bbox)) =>
    /\ response[1].numberMatched = Cardinality(Overlapping)
    /\ Overlapping = {} => response[1].features = <<>>

\* A record that touches the query box on a corner only and a record that
\* covers it are both counted although the limit of 0 returns nothing.
C8_Witness ==
  /\ SearchDone
  /\ query[1].bbox = <<Num(1), Num(1), Num(2), Num(2)>>
  /\ query[1].limit = Some(Num(0))
  /\ Len(_items[1]) = 2
  /\ _items[1][1].bbox = <<1, 0, 2, 2>>
  /\ _items[1][2].bbox = <<0, 0, 1, 1>>
  /\ response[1].numberMatched = 2
  /\ response[1].numberReturned = 0

(***************************************************************************)
(* SpecBbox: _validateBbox and the intersection test applied to arguments  *)
(* drawn from bounded sets.                                                *)
(***************************************************************************)
JSNums == {NaN, PosInf, NegInf, Num(0 - 200), Num(0), Num(100), Num(200)}
ArgBboxes == {<<w, s, e, n>> : w \in JSNums, s \in JSNums, e \in JSNums, n \in JSNums}
ItemBboxes == {<<w, s, e, n>> : w \in {0, 100}, s \in {0, 90}, e \in {0, 100}, n \in {0, 90}}

InitBbox ==
  /\ argBbox \in ArgBboxes
  /\ validBbox = None
  /\ itemBbox = None
  /\ hit = None
  /\ Constructed("prebuilt")
  /\ NoEpt /\ NoControl
  /\ storageOk = TRUE
  /\ localStorage = None
  /\ written = None

ValidateBbox ==
  /\ validBbox = None
  /\ validBbox' = Some(_validateBbox(argBbox))
  /\ UNCHANGED <<argBbox, itemBbox, hit, cacheVars, searchVars, procVars, eptVars,
               ctlVars>>

IntersectBboxes ==
  /\ validBbox # None
  /\ hit = None
  /\ \E b \in ItemBboxes :
       /\ itemBbox' = Some(b)
       /\ hit' = Some([ab |-> Intersects(b, validBbox[1]),
                       ba |-> Intersects(validBbox[1], b),
                       aa |-> Intersects(b, b),
                       bb |-> Intersects(validBbox[1], validBbox[1])])
  /\ UNCHANGED <<argBbox, validBbox, cacheVars, searchVars, procVars, eptVars,
               ctlVars>>

NextBbox == ValidateBbox \/ IntersectBboxes

SpecBbox == InitBbox /\ [][NextBbox]_vars

OrderedWhereFinite(lo, hi) == (IsFinite(lo) /\ IsFinite(hi)) => lo.v <= hi.v

C7_IntersectsSymmetricReflexive ==
  (hit # None /\ ValidBox(itemBbox[1]) /\ ValidBox(validBbox[1])) =>
    /\ hit[1].ab = hit[1].ba
    /\ hit[1].aa
    /\ hit[1].bb

\* Two different valid boxes that touch only on an edge were tested.
C7_Witness ==
  /\ hit # None
  /\ itemBbox[1] = <<0, 0, 100, 90>>
  /\ validBbox[1] = <<100, 0, 180, 90>>
  /\ hit[1].ab /\ hit[1].ba

(***************************************************************************)
(* SpecEpt: getEptUrl and its alias getCopcUrl, applied to STAC items.     *)
(* item.assets maps asset keys to assets; a key that is present may hold   *)
(* null (None here) in a document that came from JSON.                     *)
(***************************************************************************)

\* `No data asset found for item ${item.id}`
NoDataAsset_anonymous(id) == [message |-> <<"No data asset found for item ">>]

NoDataAsset(id) == [message |-> <<"No data asset found for item ", id>>]

\* const asset = item.assets.data: undefined when the key is missing.
DataAsset(item) ==
  IF "data" \in DOMAIN item.assets THEN item.assets.data ELSE None

getEptUrl(item) ==
  LET asset == DataAsset(item) IN
    IF asset = None
      THEN [ok |-> FALSE, value |-> None, error |-> Some(NoDataAsset(item.id))]
      ELSE [ok |-> TRUE, value |-> Some(asset[1].href), error |-> None]

getCopcUrl(item) == getEptUrl(item)

EptIds == {"DigitalCoast_mission_13754", "DigitalCoast_mission_10418", "test-item", "9"}

EptHrefs ==
  { <<EPT_BASE_URL, m, "ept.json">> : m \in {"13754", "10418", "9"} }
    \cup { <<"https://example.org/other/ept.json">> }

EptAssets ==
  { <<>>,
    [thumbnail |-> Some([href |-> <<"https://example.org/thumb.png">>])],
    [data |-> None] }
    \cup { [data |-> Some([href |-> h])] : h \in EptHrefs }

EptItems == { [id |-> i, assets |-> a] : i \in EptIds, a \in EptAssets }

InitEpt ==
  /\ argBbox = None /\ validBbox = None /\ itemBbox = None /\ hit = None
  /\ \E class \in {"lazy", "prebuilt"} : Constructed(class)
  /\ NoControl
  /\ storageOk = TRUE
  /\ localStorage = None
  /\ written = None
  /\ eptItem \in { Some(it) : it \in EptItems }
  /\ eptCall = None
  /\ eptOut = None

GetEptUrl ==
  /\ eptCall = None
  /\ eptCall' = Some("getEptUrl")
  /\ eptOut' = Some(getEptUrl(eptItem[1]))
  /\ UNCHANGED <<bboxVars, cacheVars, searchVars, procVars, ctlVars, eptItem>>

GetCopcUrl ==
  /\ eptCall = None
  /\ eptCall' = Some("getCopcUrl")
  /\ eptOut' = Some(getCopcUrl(eptItem[1]))
  /\ UNCHANGED <<bboxVars, cacheVars, searchVars, procVars, ctlVars, eptItem>>

NextEpt == GetEptUrl \/ GetCopcUrl

SpecEpt == InitEpt /\ [][NextEpt]_vars

\* The item has a data asset, so a URL can be retrieved from it.
HasDataUrl(item) ==
  /\ "data" \in DOMAIN item.assets
  /\ item.assets.data # None

\* The error's message contains the item id.
NamesItem(err, id) == \E i \in 1..Len(err.message) : err.message[i] = id

(***************************************************************************)
(* C14: getEptUrl (directly or through getCopcUrl) resolves with the href  *)
(* of the item's data asset for every item that has one, and for every     *)
(* item without a data asset rejects with an error whose message names the *)
(* item id.                                                                *)
(***************************************************************************)
C14_DataUrlOrErrorNamingItem ==
  eptOut # None =>
    IF HasDataUrl(eptItem[1])
      THEN /\ eptOut[1].ok
           /\ eptOut[1].value = Some(eptItem[1].assets.data[1].href)
      ELSE /\ ~eptOut[1].ok
           /\ eptOut[1].value = None
           /\ NamesItem(eptOut[1].error[1], eptItem[1].id)

C14_Witness ==
  /\ eptCall = Some("getEptUrl")
  /\ eptItem[1].id = "test-item"
  /\ DOMAIN eptItem[1].assets = {}
  /\ eptOut = Some([ok |-> FALSE, value |-> None, error |->
        Some([message |-> <<"No data asset found for item ", "test-item">>])])

(***************************************************************************)
(* SpecControl: NoaaLidarControl on a MapLibre map.                        *)
(*                                                                         *)
(* ctl holds the control's private fields, map what the control puts on    *)
(* the map, calls the searchByBbox invocations, and trace what the last    *)
(* step emitted and called, in order.  Coordinates are counted in units of *)
(* half the drag threshold, so that a drag below, at and above the         *)
(* threshold has an integer extent.  The three pointer listeners of one    *)
(* startDrawing call are registered and removed together and are told      *)
(* apart by the number of that call's closures.  Event handlers registered *)
(* with on() only record what they are handed.                             *)
(***************************************************************************)
minDrag == 2
MaxListeners == 2
MaxSearches == 2
maxAttempts == 2
DefaultMaxResults == 50

\* new Map()
EmptyMap == [k \in {} |-> None]

\* this._state of a new control (the fields the modelled operations use).
NewState ==
  [ searchMode |-> "none", isDrawing |-> FALSE, drawnBbox |-> None,
    searchResults |-> <<>>, selectedItems |-> {}, isSearching |-> FALSE,
    searchError |-> None, totalMatched |-> None, loadedItems |-> EmptyMap,
    collapsed |-> TRUE ]

\* The control after new NoaaLidarControl({maxResults}) and on(event, handler)
\* for every event, with a handler that records what it is handed.
NewControl(maxResults) ==
  [ _map |-> FALSE, _initialized |-> FALSE, _footprintLayer |-> FALSE,
    _eventHandlers |-> TRUE, _state |-> NewState, _drawStartPoint |-> None,
    _bound |-> None, maxResults |-> maxResults, _lidarControl |-> None ]

\* A map without any trace of the control.  source: None when the draw source
\* is absent, Some(None) when it holds no feature, Some(Some(box)) otherwise.
NewMap(styleLoaded) ==
  [ styleLoaded |-> styleLoaded, once |-> FALSE, listeners |-> {},
    dragPan |-> TRUE, cursor |-> "", source |-> None ]

World(c, m, t) == [ctl |-> c, map |-> m, trace |-> t]

getState(w) == w.ctl._state

\* { ...this._state, ...newState }
Merge(state, newState) ==
  [ f \in DOMAIN state |-> IF f \in DOMAIN newState THEN newState[f] ELSE state[f] ]

_emitWithData(w, event, data) ==
  [ w EXCEPT !.trace = Append(@, [ kind |-> "emit", type |-> event,
                                   heard |-> w.ctl._eventHandlers,
                                   state |-> getState(w), data |-> data ]) ]

_emit(w, event) == _emitWithData(w, event, None)

\* A merge that forgets to tell the listeners.
setState_silent(w, newState) == [w EXCEPT !.ctl._state = Merge(@, newState)]

setState(w, newState) ==
  _emit([w EXCEPT !.ctl._state = Merge(@, newState)], "statechange")

_initDrawLayers(w) ==
  IF ~w.ctl._map THEN w
  ELSE IF w.map.source = None THEN [w EXCEPT !.map.source = Some(None)]
  ELSE w

_removeDrawLayers(w) ==
  IF ~w.ctl._map THEN w ELSE [w EXCEPT !.map.source = None]

_updateDrawLayer(w, bbox) ==
  IF ~w.ctl._map THEN w
  ELSE IF w.map.source = None THEN w
  ELSE [w EXCEPT !.map.source = Some(bbox)]

\* A clearing that empties the draw layer and keeps the box in the state.
clearDrawnBbox_layerOnly(w) == _updateDrawLayer(w, None)

clearDrawnBbox(w) ==
  _updateDrawLayer(setState(w, [drawnBbox |-> None]), None)

stopDrawing(w) ==
  IF ~w.ctl._map THEN w
  ELSE LET w1 == [w EXCEPT !.map.dragPan = TRUE, !.map.cursor = ""]
           w2 == IF w1.ctl._bound # None
                   THEN [w1 EXCEPT !.map.listeners = @ \ {w1.ctl._bound[1]},
                                   !.ctl._bound = None]
                   ELSE w1
           w3 == [w2 EXCEPT !.ctl._drawStartPoint = None]
       IN setState(w3, [searchMode |-> "none", isDrawing |-> FALSE])

\* startDrawing, whose closures are numbered g.
startDrawing(w, g) ==
  IF ~w.ctl._map THEN w
  ELSE LET w1 == IF w.map.source = None THEN _initDrawLayers(w) ELSE w
           w2 == setState(w1, [searchMode |-> "draw", isDrawing |-> TRUE])
           w3 == _emit(w2, "drawstart")
           w4 == clearDrawnBbox(w3)
       IN [w4 EXCEPT !.map.dragPan = FALSE, !.map.cursor = "crosshair",
                     !.ctl._bound = Some(g), !.map.listeners = @ \cup {g}]

\* The anchor and the pointer as they come, not ordered.
DragBox_unordered(a, p) == << a[1], a[2], p[1], p[2] >>

\* [west, south, east, north] of the anchor and the pointer.
DragBox(a, p) ==
  << Min(a[1], p[1]), Min(a[2], p[2]), Max(a[1], p[1]), Max(a[2], p[2]) >>

Abs(x) == IF x < 0 THEN 0 - x ELSE x

\* A release that commits whatever the pointer has travelled.
Dragged_always(bbox) == TRUE

Dragged(bbox) ==
  Abs(bbox[3] - bbox[1]) > minDrag \/ Abs(bbox[4] - bbox[2]) > minDrag

_boundMouseDown(w, p) == [w EXCEPT !.ctl._drawStartPoint = Some(p)]

_boundMouseMove(w, p) ==
  IF w.ctl._drawStartPoint = None THEN w
  ELSE _updateDrawLayer(w, Some(DragBox(w.ctl._drawStartPoint[1], p)))

_boundMouseUp(w, p) ==
  LET bbox == DragBox(w.ctl._drawStartPoint[1], p)
      w1 == IF w.ctl._drawStartPoint # None
              THEN IF Dragged(bbox)
                     THEN _emit(_updateDrawLayer(
                                  setState(w, [drawnBbox |-> Some(bbox),
                                               isDrawing |-> FALSE]),
                                  Some(bbox)),
                                "drawend")
                     ELSE w
              ELSE w
  IN stopDrawing([w1 EXCEPT !.ctl._drawStartPoint = None])

Listener(type, w, p) ==
  CASE type = "mousedown" -> _boundMouseDown(w, p)
    [] type = "mousemove" -> _boundMouseMove(w, p)
    [] type = "mouseup" -> _boundMouseUp(w, p)

RECURSIVE Fire(_, _, _, _)
\* The map calls the n listeners that were registered when the event fired,
\* those that an earlier one has removed meanwhile included.
Fire(type, w, p, n) ==
  IF n = 0 THEN w ELSE Fire(type, Listener(type, w, p), p, n - 1)

\* new LidarControl(...): the point clouds it holds, by their ids.
NewLidarControl == [clouds |-> {}]

\* _initComponents; fails says whether creating the LiDAR control throws: the
\* exception is caught and logged, and _initialized stays false.
_initComponents(w, fails) ==
  IF ~w.ctl._map \/ w.ctl._initialized THEN w
  ELSE LET w1 == [_initDrawLayers(w) EXCEPT !.ctl._footprintLayer = TRUE]
       IN IF fails = "lidarControl" THEN w1
          ELSE [w1 EXCEPT !.ctl._lidarControl = Some(NewLidarControl),
                          !.ctl._initialized = TRUE]

InitFailures == {"no", "lidarControl"}

onAdd(w, fails) ==
  LET w1 == [w EXCEPT !.ctl._map = TRUE]
  IN IF w1.map.styleLoaded
       THEN _initComponents(w1, fails)
       ELSE [w1 EXCEPT !.map.once = TRUE]

onRemove(w) ==
  LET w1 == _removeDrawLayers(stopDrawing(w))
  IN [w1 EXCEPT !.ctl._map = FALSE, !.ctl._eventHandlers = FALSE,
                !.ctl._initialized = FALSE]

\* The body of the promise of _waitForInit up to its first animation frame:
\* at most two attempts to initialize, the second inside checkInit.
\* Returns the world and whether the promise is resolved.
_waitForInit(w, fails1, fails2) ==
  IF w.ctl._initialized THEN [w |-> w, resolved |-> TRUE]
  ELSE LET w1 == IF w.ctl._map /\ w.map.styleLoaded
                   THEN _initComponents(w, fails1) ELSE w
       IN IF w1.ctl._initialized THEN [w |-> w1, resolved |-> TRUE]
          ELSE LET w2 == IF w1.ctl._map /\ w1.map.styleLoaded
                           THEN _initComponents(w1, fails2) ELSE w1
               IN [w |-> w2, resolved |-> w2.ctl._initialized \/ ~(1 < maxAttempts)]

\* A checkInit that never gives up.
checkInit_forever(w, attempts, fails) ==
  IF w.ctl._initialized THEN [w |-> w, resolved |-> TRUE]
  ELSE LET w1 == IF w.ctl._map /\ w.map.styleLoaded
                   THEN _initComponents(w, fails) ELSE w
       IN [w |-> w1, resolved |-> w1.ctl._initialized]

\* checkInit in a later animation frame, attempts having been made before.
checkInit(w, attempts, fails) ==
  IF w.ctl._initialized THEN [w |-> w, resolved |-> TRUE]
  ELSE LET w1 == IF w.ctl._map /\ w.map.styleLoaded
                   THEN _initComponents(w, fails) ELSE w
       IN [w |-> w1,
           resolved |-> w1.ctl._initialized \/ ~(attempts + 1 < maxAttempts)]

\* What the search engine serves, and what it rejects with when it fails: an
\* Error, or a value that is not one.
EngineItems == prebuiltIndex.items

EngineFailures ==
  { [instance |-> "Error", text |-> "Failed to fetch NOAA STAC catalog"],
    [instance |-> "string", text |-> "offline"] }

\* error instanceof Error ? error : new Error(String(error))
ToError(error) ==
  IF error.instance = "Error" THEN error
  ELSE [instance |-> "Error", text |-> error.text]

NumBox(bbox) == <<Num(bbox[1]), Num(bbox[2]), Num(bbox[3]), Num(bbox[4])>>

\* stacToUnified (../utils): one unified item per feature.
stacToUnified(f) ==
  [ id |-> f.id, name |-> f.title, bbox |-> f.bbox, pointCount |-> f.pcCount,
    eptUrl |-> f.href,
    originalItem |-> [id |-> f.id, assets |-> [data |-> Some([href |-> f.href])]] ]

\* The count of what is shown instead of the count of what matched.
TotalMatched_returned(resp, items) == Len(items)

\* response.numberMatched ?? response.context?.matched ?? items.length
TotalMatched(resp, items) ==
  IF "numberMatched" \in DOMAIN resp THEN resp.numberMatched
  ELSE Len(items)

Searches == 1..MaxSearches

IdleSearch ==
  [ pc |-> "idle", bbox |-> None, attempts |-> 0, events |-> <<>>,
    out |-> None ]

\* A start of a search that keeps the selection.
BeginSearch_keepsSelection(w, bbox) ==
  LET w1 == setState(w, [ isSearching |-> TRUE, searchError |-> None,
                          searchResults |-> <<>> ])
      w2 == _emit(w1, "searchstart")
  IN [ w2 EXCEPT !.trace = Append(@, [ kind |-> "call", type |-> "searchByExtent",
                                       heard |-> TRUE, state |-> getState(w2),
                                       data |-> Some(<<bbox, w2.ctl.maxResults>>) ]) ]

\* A start of a search that forgets what is loaded.
BeginSearch_unloads(w, bbox) ==
  LET w1 == setState(w, [ isSearching |-> TRUE, searchError |-> None,
                          searchResults |-> <<>>, selectedItems |-> {},
                          loadedItems |-> EmptyMap ])
      w2 == _emit(w1, "searchstart")
  IN [ w2 EXCEPT !.trace = Append(@, [ kind |-> "call", type |-> "searchByExtent",
                                       heard |-> TRUE, state |-> getState(w2),
                                       data |-> Some(<<bbox, w2.ctl.maxResults>>) ]) ]

\* searchByBbox from the await of _waitForInit (if any) to the await of the
\* search engine.
BeginSearch(w, bbox) ==
  LET w1 == setState(w, [ isSearching |-> TRUE, searchError |-> None,
                          searchResults |-> <<>>, selectedItems |-> {} ])
      w2 == _emit(w1, "searchstart")
  IN [ w2 EXCEPT !.trace = Append(@, [ kind |-> "call", type |-> "searchByExtent",
                                       heard |-> TRUE, state |-> getState(w2),
                                       data |-> Some(<<bbox, w2.ctl.maxResults>>) ]) ]

\* this._footprintLayer.setItems(items) and zoomToFootprints() (showFootprints
\* and autoZoomToResults keep their defaults).
ShowFootprints(w, items) ==
  IF ~w.ctl._footprintLayer THEN w
  ELSE LET shown == [ kind |-> "call", type |-> "setItems", heard |-> TRUE,
                      state |-> getState(w), data |-> Some(items) ]
           zoomed == [ kind |-> "call", type |-> "zoomToFootprints", heard |-> TRUE,
                       state |-> getState(w), data |-> None ]
       IN [ w EXCEPT !.trace = IF Len(items) > 0
                                 THEN Append(Append(@, shown), zoomed)
                                 ELSE Append(@, shown) ]

\* The try block after the engine has answered.
SearchSucceeded(w, resp) ==
  LET items == [k \in 1..Len(resp.features) |-> stacToUnified(resp.features[k])]
      w1 == setState(w, [ isSearching |-> FALSE, searchResults |-> items,
                          totalMatched |-> Some(TotalMatched(resp, items)) ])
  IN _emitWithData(ShowFootprints(w1, items), "searchcomplete", Some(items))

\* The catch block as it would be with its events in the other order.
SearchFailed_emitsFirst(w, error) ==
  LET err == ToError(error)
      w1 == _emitWithData(w, "searcherror", Some(err))
  IN setState(w1, [isSearching |-> FALSE, searchError |-> Some(err.text)])

\* The catch block, up to its throw.
SearchFailed(w, error) ==
  LET err == ToError(error)
      w1 == setState(w, [isSearching |-> FALSE, searchError |-> Some(err.text)])
  IN _emitWithData(w1, "searcherror", Some(err))

\* Whether the catch block of searchByBbox ends by throwing.
Rethrows == TRUE

\* What a handler of 'searchcomplete' throws when it fails: the event is
\* emitted inside the try block, so the catch block gets it.
HandlerFailures == { [instance |-> "Error", text |-> "handler failed"] }

\* A selecting that takes only ids of the current results.
selectItem_checked(w, id) ==
  IF id \in { w.ctl._state.searchResults[k].id : k \in DOMAIN w.ctl._state.searchResults }
    THEN _emit(setState(w, [selectedItems |-> w.ctl._state.selectedItems \cup {id}]),
               "itemselect")
    ELSE w

selectItem(w, id) ==
  _emit(setState(w, [selectedItems |-> w.ctl._state.selectedItems \cup {id}]),
        "itemselect")

deselectItem(w, id) ==
  _emit(setState(w, [selectedItems |-> w.ctl._state.selectedItems \ {id}]),
        "itemdeselect")

toggleItemSelection(w, id) ==
  IF id \in w.ctl._state.selectedItems THEN deselectItem(w, id) ELSE selectItem(w, id)

(***************************************************************************)
(* Loading and unloading.  A call of loadItem or loadSelectedItems is a    *)
(* process that runs from one await to the next in one step; the await of  *)
(* getEptUrl, whose promise is settled when it is awaited, is not a point  *)
(* at which other operations run.  The ghost fields of a call record what  *)
(* it did: the ids it invoked loadItem for (tried), those whose load       *)
(* succeeded (loaded) and failed (failed), the loaderror events it emitted *)
(* (errors), the selection, the filtered results and the loaded ids when   *)
(* it was called, and whether no other operation changed loadedItems       *)
(* while it ran (alone).                                                   *)
(***************************************************************************)
MaxLoads == 2
MaxClouds == 2
Loads == 1..MaxLoads

IdleLoad ==
  [ pc |-> "idle", fn |-> "none", item |-> None, queue |-> <<>>, attempts |-> 0,
    tried |-> <<>>, loaded |-> <<>>, failed |-> <<>>, errors |-> 0,
    selection |-> {}, listed |-> <<>>, before |-> {}, alone |-> TRUE,
    out |-> None ]

\* What the external loader rejects with when it fails.
LoaderFailures == { [instance |-> "Error", text |-> "Failed to load point cloud"] }

NoLidarControl == [instance |-> "Error", text |-> "LiDAR control not available"]

\* The error of getEptUrl as the catch block of loadItem sees it.
EptError(e) == [instance |-> "Error", text |-> e.message]

\* map.set(k, v) and map.delete(k) on a copy.
Put(m, k, v) == [x \in DOMAIN m \cup {k} |-> IF x = k THEN v ELSE m[x]]
Delete(m, k) == [x \in DOMAIN m \ {k} |-> m[x]]

\* The id the external loader gives its next point cloud, of the data at
\* url: one that no point cloud has among those the control still knows.
NewCloud(w, url) ==
  LET used == w.ctl._lidarControl[1].clouds
                \cup { w.ctl._state.loadedItems[k].id : k \in DOMAIN w.ctl._state.loadedItems }
  IN [ url |-> url,
       n |-> CHOOSE n \in 1..(Cardinality(used) + 1) : [url |-> url, n |-> n] \notin used ]

Call(w, fn, data) ==
  [ w EXCEPT !.trace = Append(@, [ kind |-> "call", type |-> fn, heard |-> TRUE,
                                   state |-> getState(w), data |-> data ]) ]

\* The finally block of loadItem.
ResetCursor(w) == IF w.ctl._map THEN [w EXCEPT !.map.cursor = ""] ELSE w

\* A catch block that reports nothing.
LoadFailed_silent(w, error) == ResetCursor(w)

\* The catch and finally blocks of loadItem, up to the throw.
LoadFailed(w, error) ==
  ResetCursor(_emitWithData(w, "loaderror", Some(ToError(error))))

\* A success that records nothing.
LoadSucceeded_forgets(w, item, h) ==
  _emitWithData(w, "loadcomplete", Some([id |-> h, name |-> item.id]))

\* The try block of loadItem after loadPointCloud has resolved with cloud h.
LoadSucceeded(w, item, h) ==
  LET info == [id |-> h, name |-> item.id]
      w1 == setState(w, [loadedItems |-> Put(w.ctl._state.loadedItems, item.id, info)])
  IN _emitWithData(w1, "loadcomplete", Some(info))

\* A loop that tries every item of its list, loaded or not.
Skip_none(w, queue) == queue

\* The items of the queue from the first one that is not loaded.
RECURSIVE Skip(_, _)
Skip(w, queue) ==
  IF queue = <<>> THEN queue
  ELSE IF queue[1].id \in DOMAIN w.ctl._state.loadedItems THEN Skip(w, Tail(queue))
  ELSE queue

\* A loop that gives up at the first failure.
AfterFailure_stops(queue) == <<>>

\* What is left to the loop of loadSelectedItems after a failure.
AfterFailure(queue) == queue

RECURSIVE Proceed(_, _, _, _)

\* The promise of the loadItem call of process ld settles (error = None: it
\* resolves): a loadItem call is over, loadSelectedItems goes on with its loop.
SettleLoad(w, ld, error, f1, f2) ==
  LET id == ld.item[1].id
      ld1 == IF error = None THEN [ld EXCEPT !.loaded = Append(@, id)]
             ELSE [ld EXCEPT !.failed = Append(@, id)]
  IN IF ld.fn = "loadItem"
       THEN [ w |-> w,
              ld |-> [ld1 EXCEPT !.pc = "done", !.item = None,
                                 !.out = Some([ok |-> error = None, error |-> error])] ]
       ELSE Proceed(w, [ld1 EXCEPT !.item = None,
                                   !.queue = IF error = None THEN @ ELSE AfterFailure(@)],
                    f1, f2)

\* loadItem after the wait for initialization, up to the await of
\* loadPointCloud, or to its end when it throws before.
Begin(w, ld, f1, f2) ==
  LET item == ld.item[1] IN
  IF w.ctl._lidarControl = None
    THEN SettleLoad(w, ld, Some(NoLidarControl), f1, f2)
    ELSE LET w1 == _emit(w, "loadstart")
             w2 == IF w1.ctl._map THEN [w1 EXCEPT !.map.cursor = "wait"] ELSE w1
             url == getEptUrl(item.originalItem)
         IN IF url.ok
              THEN [ w |-> Call(w2, "loadPointCloud", url.value),
                     ld |-> [ld EXCEPT !.pc = "cloud"] ]
              ELSE SettleLoad(LoadFailed(w2, EptError(url.error[1])),
                          [ld EXCEPT !.errors = @ + 1],
                          Some(EptError(url.error[1])), f1, f2)

\* loadItem(item) up to its first await.
Enter(w, ld, item, f1, f2) ==
  LET ld1 == [ld EXCEPT !.item = Some(item), !.tried = Append(@, item.id)] IN
  IF w.ctl._initialized THEN Begin(w, ld1, f1, f2)
  ELSE LET r == _waitForInit(w, f1, f2)
       IN [ w |-> r.w,
            ld |-> [ld1 EXCEPT !.pc = IF r.resolved THEN "resolved" ELSE "waiting",
                               !.attempts = IF r.resolved THEN 0 ELSE 1] ]

\* The loop of loadSelectedItems from its next item on.
Proceed(w, ld, f1, f2) ==
  LET queue == Skip(w, ld.queue) IN
  IF queue = <<>>
    THEN [ w |-> w,
           ld |-> [ld EXCEPT !.pc = "done", !.queue = <<>>,
                             !.out = Some([ok |-> TRUE, error |-> None])] ]
    ELSE Enter(w, [ld EXCEPT !.queue = Tail(queue)], queue[1], f1, f2)

\* The items loadSelectedItems will go through.
SelectedResults(state) ==
  SelectSeq(state.searchResults, LAMBDA item : item.id \in state.selectedItems)

\* An unloading that tells nobody.
unloadItem_silent(w, itemId) ==
  IF itemId \notin DOMAIN w.ctl._state.loadedItems THEN w
  ELSE setState(w, [loadedItems |-> Delete(w.ctl._state.loadedItems, itemId)])

unloadItem(w, itemId) ==
  IF itemId \notin DOMAIN w.ctl._state.loadedItems THEN w
  ELSE LET info == w.ctl._state.loadedItems[itemId]
           w1 == IF w.ctl._lidarControl = None THEN w
                 ELSE [ Call(w, "unloadPointCloud", Some(info.id))
                          EXCEPT !.ctl._lidarControl[1].clouds = @ \ {info.id} ]
           w2 == setState(w1, [loadedItems |-> Delete(w1.ctl._state.loadedItems, itemId)])
       IN _emitWithData(w2, "unload", Some(itemId))

\* One 'unload' event for each of the ids.
RECURSIVE EmitUnloads(_, _)
EmitUnloads(w, ids) ==
  IF ids = {} THEN w
  ELSE LET id == CHOOSE x \in ids : TRUE
       IN EmitUnloads(_emitWithData(w, "unload", Some(id)), ids \ {id})

clearLoadedItems(w) ==
  LET itemIds == DOMAIN w.ctl._state.loadedItems
      w1 == IF w.ctl._lidarControl = None THEN w
            ELSE [ Call(w, "unloadPointCloud", None)
                     EXCEPT !.ctl._lidarControl[1].clouds = {} ]
  IN EmitUnloads(setState(w1, [loadedItems |-> EmptyMap]), itemIds)

\* A clearing that takes the loaded items along.
clearResults_all(w) ==
  setState(w, [ searchResults |-> <<>>, selectedItems |-> {},
                totalMatched |-> None, loadedItems |-> EmptyMap ])

clearResults(w) ==
  LET w1 == IF w.ctl._footprintLayer THEN Call(w, "clear", None) ELSE w
  IN setState(w1, [ searchResults |-> <<>>, selectedItems |-> {},
                    totalMatched |-> None ])

\* toggle() of a control whose panel exists.
toggle(w) ==
  LET w1 == [w EXCEPT !.ctl._state.collapsed = ~@]
      w2 == _emit(w1, IF w1.ctl._state.collapsed THEN "collapse" ELSE "expand")
  IN _emit(w2, "statechange")

(***************************************************************************)
(* The steps of SpecControl.  Every step starts a new trace, whose first   *)
(* entry names the operation that was called.                              *)
(***************************************************************************)
Points == {<<0, 0>>, <<1, 0>>, <<0, 3>>}
SearchBoxes == {<<0, 0, 3, 3>>, <<5, 5, 6, 6>>}
ItemIds == { EngineItems[k].id : k \in 1..Len(EngineItems) }

Here(op, data) ==
  World(ctl, map, << [ kind |-> "op", type |-> op, heard |-> TRUE,
                       state |-> NewState, data |-> data ] >>)

Apply(w) == ctl' = w.ctl /\ map' = w.map /\ trace' = w.trace

\* The searcher's own state is not involved in the step.
Stac == UNCHANGED <<bboxVars, cacheVars, searchVars, procVars, eptVars, peer>>

\* Nor are the loadItem and loadSelectedItems calls.
Searcher == Stac /\ UNCHANGED loads

InitControl ==
  /\ argBbox = None /\ validBbox = None /\ itemBbox = None /\ hit = None
  /\ peer = None
  /\ Constructed("prebuilt")
  /\ NoEpt
  /\ storageOk = TRUE
  /\ localStorage = None
  /\ written = None
  /\ \E maxResults \in {1, DefaultMaxResults} : ctl = NewControl(maxResults)
  /\ \E styleLoaded \in BOOLEAN : map = NewMap(styleLoaded)
  /\ calls = [c \in Searches |-> IdleSearch]
  /\ loads = [l \in Loads |-> IdleLoad]
  /\ trace = <<>>

OnAdd ==
  /\ ~ctl._map
  /\ \E fails \in InitFailures : Apply(onAdd(Here("onAdd", None), fails))
  /\ UNCHANGED calls
  /\ Searcher

\* The map fires 'style.load': initWhenReady runs if onAdd has registered it.
StyleLoad ==
  /\ ~map.styleLoaded
  /\ LET w == [Here("style.load", None) EXCEPT !.map.styleLoaded = TRUE,
                                               !.map.once = FALSE]
     IN \E fails \in InitFailures :
          Apply(IF map.once /\ ~ctl._initialized THEN _initComponents(w, fails) ELSE w)
  /\ UNCHANGED calls
  /\ Searcher

OnRemove ==
  /\ ctl._map
  /\ Apply(onRemove(Here("onRemove", None)))
  /\ UNCHANGED calls
  /\ Searcher

\* on(event, handler) for every event again, after onRemove has dropped them.
On ==
  /\ ~ctl._eventHandlers
  /\ Apply([Here("on", None) EXCEPT !.ctl._eventHandlers = TRUE])
  /\ UNCHANGED calls
  /\ Searcher

\* The number of the closures of the next startDrawing call.
FreeListener ==
  CHOOSE g \in 1..MaxListeners :
    g \notin map.listeners /\ \A h \in 1..(g - 1) : h \in map.listeners

StartDrawing ==
  /\ Cardinality(map.listeners) < MaxListeners
  /\ Apply(startDrawing(Here("startDrawing", None), FreeListener))
  /\ UNCHANGED calls
  /\ Searcher

StopDrawing ==
  /\ Apply(stopDrawing(Here("stopDrawing", None)))
  /\ UNCHANGED calls
  /\ Searcher

ClearDrawnBbox ==
  /\ Apply(clearDrawnBbox(Here("clearDrawnBbox", None)))
  /\ UNCHANGED calls
  /\ Searcher

\* The pointer is pressed, moved or released at p.
Mouse(type, p) ==
  /\ Apply(Fire(type, Here(type, Some(p)), p, Cardinality(map.listeners)))
  /\ UNCHANGED calls
  /\ Searcher

ToggleItemSelection(id) ==
  /\ Apply(toggleItemSelection(Here("toggleItemSelection", Some(id)), id))
  /\ UNCHANGED calls
  /\ Searcher

FreeSearch ==
  CHOOSE c \in Searches :
    calls[c].pc = "idle" /\ \A d \in 1..(c - 1) : calls[d].pc # "idle"

\* searchByBbox(bbox) up to its first await.
SearchByBbox(bbox) ==
  /\ \E c \in Searches : calls[c].pc = "idle"
  /\ LET c == FreeSearch
         w == Here("searchByBbox", Some(bbox))
         call == [IdleSearch EXCEPT !.bbox = Some(bbox)]
     IN IF ctl._initialized
          THEN /\ Apply(BeginSearch(w, bbox))
               /\ calls' = [calls EXCEPT ![c] =
                    [call EXCEPT !.pc = "engine", !.events = <<"searchstart">>]]
          ELSE \E fails1 \in InitFailures, fails2 \in InitFailures :
                 LET r == _waitForInit(w, fails1, fails2)
                 IN /\ Apply(r.w)
                    /\ calls' = [calls EXCEPT ![c] =
                         [call EXCEPT !.pc = IF r.resolved THEN "resolved" ELSE "waiting",
                                      !.attempts = IF r.resolved THEN 0 ELSE 1]]
  /\ Searcher

\* An animation frame of a call that waits for initialization.
CheckInit(c) ==
  /\ calls[c].pc = "waiting"
  /\ \E fails \in InitFailures :
       LET r == checkInit(Here("checkInit", Some(c)), calls[c].attempts, fails)
       IN /\ calls' = [calls EXCEPT ![c].pc = IF r.resolved THEN "resolved" ELSE "waiting",
                                    ![c].attempts = @ + 1]
          /\ Apply(r.w)
  /\ Searcher

\* The call goes on after the await of _waitForInit.
ResumeSearch(c) ==
  /\ calls[c].pc = "resolved"
  /\ calls' = [calls EXCEPT ![c].pc = "engine", ![c].events = <<"searchstart">>]
  /\ Apply(BeginSearch(Here("resume", Some(c)), calls[c].bbox[1]))
  /\ Searcher

\* The response of the search engine to call c.
Answered(c) ==
  SearchItems(EngineItems, NumBox(calls[c].bbox[1]), Some(Num(ctl.maxResults)))

\* The search engine resolves and the call runs to its return, or, when a
\* handler of 'searchcomplete' throws, through its catch block.
EngineResolves(c, thrown) ==
  /\ calls[c].pc = "engine"
  /\ thrown # None => ctl._eventHandlers
  /\ LET w == SearchSucceeded(Here("resolve", Some([call |-> c, error |-> thrown])),
                              Answered(c))
     IN IF thrown = None
          THEN /\ calls' = [calls EXCEPT ![c].pc = "done",
                             ![c].events = Append(@, "searchcomplete"),
                             ![c].out = Some([ok |-> TRUE, error |-> None])]
               /\ Apply(w)
          ELSE /\ calls' = [calls EXCEPT ![c].pc = "done",
                             ![c].events = @ \o <<"searchcomplete", "searcherror">>,
                             ![c].out = IF Rethrows
                                          THEN Some([ok |-> FALSE,
                                                     error |-> Some(ToError(thrown[1]))])
                                          ELSE Some([ok |-> TRUE, error |-> None])]
               /\ Apply(SearchFailed(w, thrown[1]))
  /\ Searcher

\* The search engine rejects and the call runs through its catch block.
EngineRejects(c, error) ==
  /\ calls[c].pc = "engine"
  /\ calls' = [calls EXCEPT ![c].pc = "done",
                ![c].events = Append(@, "searcherror"),
                ![c].out = IF Rethrows
                             THEN Some([ok |-> FALSE, error |-> Some(ToError(error))])
                             ELSE Some([ok |-> TRUE, error |-> None])]
  /\ Apply(SearchFailed(Here("reject", Some([call |-> c, error |-> Some(error)])), error))
  /\ Searcher

\* The control's life on the map.
Lifecycle == OnAdd \/ StyleLoad \/ OnRemove \/ On

NextControl ==
  \/ Lifecycle
  \/ \E id \in ItemIds : ToggleItemSelection(id)
  \/ \E bbox \in SearchBoxes : SearchByBbox(bbox)
  \/ \E c \in Searches : CheckInit(c)
  \/ \E c \in Searches : ResumeSearch(c)
  \/ \E c \in Searches : EngineResolves(c, None)
  \/ \E c \in Searches, error \in HandlerFailures : EngineResolves(c, Some(error))
  \/ \E c \in Searches, error \in EngineFailures : EngineRejects(c, error)

\* Searching and selecting.
SpecControl == InitControl /\ [][NextControl]_vars

NextDraw ==
  \/ Lifecycle
  \/ StartDrawing
  \/ StopDrawing
  \/ ClearDrawnBbox
  \/ \E p \in Points : Mouse("mousedown", p)
  \/ \E p \in Points : Mouse("mousemove", p)
  \/ \E p \in Points : Mouse("mouseup", p)

\* Drawing.
SpecDraw == InitControl /\ [][NextDraw]_vars

(***************************************************************************)
(* SpecLoad: loading and unloading, with searches one after the other,     *)
(* selection, clearResults, the panel toggle and drawing around them.      *)
(***************************************************************************)

\* An item as a caller may hand it to loadItem without a search: its STAC
\* item has no data asset.
Orphan ==
  [ id |-> <<"x">>, name |-> <<"x">>, bbox |-> <<0, 0, 1, 1>>, pointCount |-> None,
    eptUrl |-> <<"x">>, originalItem |-> [id |-> <<"x">>, assets |-> <<>>] ]

LoadArgs == {stacToUnified(Feature(EngineItems[1])), Orphan}

FreeLoad ==
  CHOOSE l \in Loads : loads[l].pc = "idle" /\ \A m \in 1..(l - 1) : loads[m].pc # "idle"

\* The record of a call that starts now.
NewLoad(fn) ==
  [ IdleLoad EXCEPT !.fn = fn, !.selection = ctl._state.selectedItems,
                    !.listed = [k \in 1..Len(SelectedResults(ctl._state)) |->
                                  SelectedResults(ctl._state)[k].id],
                    !.before = DOMAIN ctl._state.loadedItems ]

\* The calls in progress other than l learn that loadedItems was changed.
Disturbed(l) ==
  [ m \in Loads |-> IF m # l /\ loads[m].pc # "idle"
                      THEN [loads[m] EXCEPT !.alone = FALSE] ELSE loads[m] ]

\* The step of call l ends in world r.w with the call as r.ld.  A call that
\* is over leaves its record as the last entry of the trace.
ApplyLoad(l, r) ==
  /\ Apply(IF r.ld.pc = "done" THEN Call(r.w, "return", Some(r.ld)) ELSE r.w)
  /\ loads' = [ (IF r.w.ctl._state.loadedItems # ctl._state.loadedItems
                   THEN Disturbed(l) ELSE loads)
                 EXCEPT ![l] = IF r.ld.pc = "done" THEN IdleLoad ELSE r.ld ]
  /\ UNCHANGED calls
  /\ Stac

\* A step outside the calls ends in world w.
ApplyUnload(w) ==
  /\ Apply(w)
  /\ loads' = IF w.ctl._state.loadedItems # ctl._state.loadedItems
                THEN Disturbed(0) ELSE loads
  /\ UNCHANGED calls
  /\ Stac

\* The external loader holds fewer point clouds than the model follows.
FewClouds ==
  ctl._lidarControl # None => Cardinality(ctl._lidarControl[1].clouds) < MaxClouds

\* loadItem(item) up to its first await.
LoadItem(item) ==
  /\ \E l \in Loads : loads[l].pc = "idle"
  /\ FewClouds
  /\ \E f1 \in InitFailures, f2 \in InitFailures :
       ApplyLoad(FreeLoad, Enter(Here("loadItem", Some(item.id)), NewLoad("loadItem"),
                                 item, f1, f2))

\* loadSelectedItems() up to its first await.
LoadSelectedItems ==
  /\ \E l \in Loads : loads[l].pc = "idle"
  /\ FewClouds
  /\ \E f1 \in InitFailures, f2 \in InitFailures :
       ApplyLoad(FreeLoad,
                 Proceed(Here("loadSelectedItems", None),
                         [NewLoad("loadSelectedItems") EXCEPT
                            !.queue = SelectedResults(ctl._state)],
                         f1, f2))

\* An animation frame of a loadItem call that waits for initialization.
CheckInitLoad(l) ==
  /\ loads[l].pc = "waiting"
  /\ \E fails \in InitFailures :
       LET r == checkInit(Here("checkInit", Some(l)), loads[l].attempts, fails)
       IN ApplyLoad(l, [ w |-> r.w,
                         ld |-> [loads[l] EXCEPT
                                   !.pc = IF r.resolved THEN "resolved" ELSE "waiting",
                                   !.attempts = @ + 1] ])

\* The loadItem call goes on after the await of _waitForInit.
ResumeLoad(l) ==
  /\ loads[l].pc = "resolved"
  /\ \E f1 \in InitFailures, f2 \in InitFailures :
       ApplyLoad(l, Begin(Here("resumeLoad", Some(l)), loads[l], f1, f2))

\* loadPointCloud resolves with a new point cloud, and the call runs to its
\* end, through its catch block when a handler of 'loadcomplete' throws.
CloudResolves(l, thrown) ==
  /\ loads[l].pc = "cloud"
  /\ thrown # None => ctl._eventHandlers
  /\ LET w == Here("cloud", Some([call |-> l, error |-> thrown]))
         h == NewCloud(w, getEptUrl(loads[l].item[1].originalItem).value[1])
         w1 == [w EXCEPT !.ctl._lidarControl[1].clouds = @ \cup {h}]
         w2 == LoadSucceeded(w1, loads[l].item[1], h)
     IN \E f1 \in InitFailures, f2 \in InitFailures :
          IF thrown = None
            THEN ApplyLoad(l, SettleLoad(ResetCursor(w2), loads[l], None, f1, f2))
            ELSE ApplyLoad(l, SettleLoad(LoadFailed(w2, thrown[1]),
                                         [loads[l] EXCEPT !.errors = @ + 1],
                                         Some(ToError(thrown[1])), f1, f2))

\* loadPointCloud rejects and the call runs through its catch block.
CloudRejects(l, error) ==
  /\ loads[l].pc = "cloud"
  /\ \E f1 \in InitFailures, f2 \in InitFailures :
       ApplyLoad(l, SettleLoad(LoadFailed(Here("noCloud", Some([call |-> l,
                                                               error |-> Some(error)])),
                                          error),
                               [loads[l] EXCEPT !.errors = @ + 1],
                               Some(ToError(error)), f1, f2))

UnloadItem(id) == ApplyUnload(unloadItem(Here("unloadItem", Some(id)), id))

ClearLoadedItems == ApplyUnload(clearLoadedItems(Here("clearLoadedItems", None)))

ClearResults == ApplyUnload(clearResults(Here("clearResults", None)))

\* A click on the control's button, which exists once the control is added.
Toggle ==
  /\ ctl._map
  /\ ApplyUnload(toggle(Here("toggle", None)))

\* No searchByBbox call was made.
NoSearch == \A c \in Searches : calls[c].pc = "idle"

\* The box of the one search of SpecLoad: it holds every item.
LoadBox == <<0, 0, 3, 3>>

\* No loadItem or loadSelectedItems call is in progress.
NoLoad == \A l \in Loads : loads[l].pc = "idle"

\* A control with the default maxResults and a map whose style is loaded.
InitLoad ==
  /\ InitControl
  /\ ctl.maxResults = DefaultMaxResults
  /\ map.styleLoaded

NextLoad ==
  \/ OnAdd
  \/ \E id \in ItemIds : ToggleItemSelection(id)
  \/ NoSearch /\ SearchByBbox(LoadBox)
  \/ \E c \in Searches : CheckInit(c)
  \/ \E c \in Searches : ResumeSearch(c)
  \/ \E c \in Searches : EngineResolves(c, None)
  \/ \E item \in LoadArgs : NoLoad /\ LoadItem(item)
  \/ NoLoad /\ LoadSelectedItems
  \/ \E l \in Loads : CheckInitLoad(l)
  \/ \E l \in Loads : ResumeLoad(l)
  \/ \E l \in Loads : CloudResolves(l, None)
  \/ \E l \in Loads, error \in HandlerFailures : CloudResolves(l, Some(error))
  \/ \E l \in Loads, error \in LoaderFailures : CloudRejects(l, error)
  \/ \E id \in ItemIds : UnloadItem(id)
  \/ ClearLoadedItems

SpecLoad == InitLoad /\ [][NextLoad]_vars

\* The ends of the one drag of SpecFrame.
DragFrom == <<0, 0>>
DragTo == <<0, 3>>

NextFrame ==
  \/ OnAdd
  \/ ToggleItemSelection(EngineItems[1].id)
  \/ NoSearch /\ SearchByBbox(LoadBox)
  \/ \E c \in Searches : CheckInit(c)
  \/ \E c \in Searches : ResumeSearch(c)
  \/ \E c \in Searches : EngineResolves(c, None)
  \/ ClearResults
  \/ Toggle
  \/ map.listeners = {} /\ StartDrawing
  \/ StopDrawing
  \/ Mouse("mousedown", DragFrom)
  \/ Mouse("mouseup", DragTo)
  \/ NoLoad /\ LoadItem(stacToUnified(Feature(EngineItems[1])))
  \/ \E l \in Loads : CheckInitLoad(l)
  \/ \E l \in Loads : ResumeLoad(l)
  \/ \E l \in Loads : CloudResolves(l, None)
  \/ UnloadItem(EngineItems[1].id)

\* Operations of every kind around loaded items.
SpecFrame == InitLoad /\ [][NextFrame]_vars

SelectItem(id) ==
  /\ Apply(selectItem(Here("selectItem", Some(id)), id))
  /\ UNCHANGED calls
  /\ Searcher

DeselectItem(id) ==
  /\ Apply(deselectItem(Here("deselectItem", Some(id)), id))
  /\ UNCHANGED calls
  /\ Searcher

\* The ids handed to the selection methods: one of the results, one of none.
SelectIds == {EngineItems[1].id, Orphan.id}

NextSelect ==
  \/ OnAdd
  \/ \E id \in SelectIds : SelectItem(id)
  \/ \E id \in SelectIds : DeselectItem(id)
  \/ \E id \in SelectIds : ToggleItemSelection(id)
  \/ NoSearch /\ SearchByBbox(LoadBox)
  \/ \E c \in Searches : CheckInit(c)
  \/ \E c \in Searches : ResumeSearch(c)
  \/ \E c \in Searches : EngineResolves(c, None)
  \/ \E c \in Searches, error \in EngineFailures : EngineRejects(c, error)
  \/ map.listeners = {} /\ StartDrawing
  \/ Mouse("mousedown", DragFrom)
  \/ Mouse("mouseup", DragTo)
  \/ NoLoad /\ LoadItem(stacToUnified(Feature(EngineItems[1])))
  \/ \E l \in Loads : CheckInitLoad(l)
  \/ \E l \in Loads : ResumeLoad(l)
  \/ \E l \in Loads : CloudResolves(l, None)

\* Selecting around a search, a drag and a load.
SpecSelect == InitLoad /\ [][NextSelect]_vars

\* The control is added and initialized before anything is asked of it.
Ready == ctl._initialized

NextOverlap ==
  \/ OnAdd
  \/ SelectItem(EngineItems[1].id)
  \/ Ready /\ NoSearch /\ SearchByBbox(LoadBox)
  \/ \E c \in Searches : EngineResolves(c, None)
  \/ Ready /\ LoadItem(stacToUnified(Feature(EngineItems[1])))
  \/ Ready /\ LoadSelectedItems
  \/ \E l \in Loads : CloudResolves(l, None)
  \/ \E l \in Loads, error \in LoaderFailures : CloudRejects(l, error)
  \/ UnloadItem(EngineItems[1].id)

\* Load calls that overlap.

SpecOverlap == InitLoad /\ [][NextOverlap]_vars

\* The engine answers call c.
EngineAnswers(c) ==
  \/ EngineResolves(c, None)
  \/ \E error \in EngineFailures : EngineRejects(c, error)

NextWait ==
  \/ OnAdd
  \/ StyleLoad
  \/ SearchByBbox(LoadBox)
  \/ \E c \in Searches : CheckInit(c)
  \/ \E c \in Searches : ResumeSearch(c)
  \/ \E c \in Searches : EngineAnswers(c)

\* What CheckInit(c), ResumeSearch(c) and EngineAnswers(c) do to the record of
\* call c; each is enabled exactly when the step is.
Polled(c) ==
  /\ calls[c].pc = "waiting"
  /\ \E resolved \in BOOLEAN :
       calls' = [calls EXCEPT ![c].pc = IF resolved THEN "resolved" ELSE "waiting",
                              ![c].attempts = @ + 1]

Resumed(c) ==
  /\ calls[c].pc = "resolved"
  /\ calls' = [calls EXCEPT ![c].pc = "engine", ![c].events = <<"searchstart">>]

Concluded(c) ==
  /\ calls[c].pc = "engine"
  /\ \E event \in {"searchcomplete", "searcherror"}, ok \in BOOLEAN,
        error \in {None} \cup {Some(ToError(e)) : e \in EngineFailures} :
       calls' = [calls EXCEPT ![c].pc = "done",
                              ![c].events = Append(@, event),
                              ![c].out = Some([ok |-> ok, error |-> error])]

\* Searches on a control that may never be initialized.  The browser runs
\* every animation frame that was requested and every continuation of a
\* settled promise, and the search engine, which filters an array it holds,
\* answers every call.
SpecWait ==
  /\ InitControl
  /\ [][NextWait]_vars
  /\ \A c \in Searches :
       /\ WF_calls(Polled(c))
       /\ WF_calls(Resumed(c))
       /\ WF_calls(Concluded(c))

(***************************************************************************)
(* Properties of SpecControl.                                              *)
(***************************************************************************)

\* The step in which call c sets out: it has passed the wait for
\* initialization and runs up to the await of the search engine.
Begun(c) == calls[c].pc \in {"idle", "resolved"} /\ calls'[c].pc = "engine"

\* The step in which call c runs on after the engine has resolved.
EngineSucceeded(c) ==
  calls[c].pc = "engine" /\ calls'[c].pc = "done" /\ trace'[1].type = "resolve"

\* The step in which call c runs on after the engine has rejected.
EngineFailed(c) ==
  calls[c].pc = "engine" /\ calls'[c].pc = "done" /\ trace'[1].type = "reject"

\* Entry i of sequence t is the emission of the event.
IsEmit(t, i, event) == t[i].kind = "emit" /\ t[i].type = event

\* Entry i of sequence t is the invocation of the search engine.
IsEngineCall(t, i) == t[i].kind = "call" /\ t[i].type = "searchByExtent"

\* How many times sequence t emits the event.
Emitted(t, event) == Cardinality({i \in DOMAIN t : IsEmit(t, i, event)})

(***************************************************************************)
(* C15: searchByBbox first sets isSearching = true and empties             *)
(* searchResults, selectedItems and searchError, before it invokes the     *)
(* search engine; when the engine succeeds it sets searchResults to the    *)
(* returned items in their rank order, totalMatched to the engine's match  *)
(* count and isSearching = false; when the engine fails it sets            *)
(* searchError to the failure message and isSearching = false.             *)
(***************************************************************************)
C15_SearchFoldsOutcomeIntoState ==
  [][ \A c \in Searches :
        /\ Begun(c) =>
             /\ ctl'._state.isSearching
             /\ ctl'._state.searchResults = <<>>
             /\ ctl'._state.selectedItems = {}
             /\ ctl'._state.searchError = None
             /\ \E i \in DOMAIN trace' :
                  /\ IsEmit(trace', i, "statechange")
                  /\ trace'[i].state.isSearching
                  /\ trace'[i].state.searchResults = <<>>
                  /\ \E j \in DOMAIN trace' : i < j /\ IsEngineCall(trace', j)
        /\ EngineSucceeded(c) =>
             LET resp == Answered(c)
                 results == ctl'._state.searchResults
             IN /\ Len(results) = Len(resp.features)
                /\ \A k \in DOMAIN results : results[k].id = resp.features[k].id
                /\ \A k \in DOMAIN results : \A l \in DOMAIN results :
                     k < l => Coalesce(results[k].pointCount) >= Coalesce(results[l].pointCount)
                /\ ctl'._state.totalMatched = Some(resp.numberMatched)
                /\ ~ctl'._state.isSearching
        /\ EngineFailed(c) =>
             /\ ctl'._state.searchError = Some(trace'[1].data[1].error[1].text)
             /\ ~ctl'._state.isSearching ]_vars

C15_Witness ==
  /\ calls[1].pc = "done" /\ ~calls[1].out[1].ok
  /\ calls[2].pc = "done" /\ calls[2].out[1].ok
  /\ trace[1].type = "resolve"
  /\ Len(ctl._state.searchResults) = 1
  /\ ctl._state.totalMatched = Some(2)
  /\ ctl._state.searchError = None
  /\ ctl._state.selectedItems = {}
  /\ ~ctl._state.isSearching

\* The step in which call c runs from the engine's answer to its end.
Settled(c) == calls[c].pc = "engine" /\ calls'[c].pc = "done"

\* The step in which a handler of 'searchcomplete' throws.
HandlerThrew == trace'[1].type = "resolve" /\ trace'[1].data[1].error # None

\* searchstart is emitted once, before the engine is invoked, and no outcome
\* event with it.
StartThenEngine(t) ==
  /\ Emitted(t, "searchstart") = 1
  /\ Emitted(t, "searchcomplete") = 0
  /\ Emitted(t, "searcherror") = 0
  /\ \E i \in DOMAIN t : \E j \in DOMAIN t :
       IsEmit(t, i, "searchstart") /\ IsEngineCall(t, j) /\ i < j

\* Every outcome event of t carries the state with the outcome folded in.
OutcomeSnapshots(t) ==
  \A i \in DOMAIN t :
    /\ IsEmit(t, i, "searchcomplete") =>
         /\ ~t[i].state.isSearching
         /\ t[i].state.searchResults = t[i].data[1]
    /\ IsEmit(t, i, "searcherror") =>
         /\ ~t[i].state.isSearching
         /\ t[i].state.searchError = Some(t[i].data[1].text)

\* No search event is emitted.
NoSearchEvent(t) ==
  /\ Emitted(t, "searchstart") = 0
  /\ Emitted(t, "searchcomplete") = 0
  /\ Emitted(t, "searcherror") = 0

C17_EngineFailureDoesNotEscape ==
  [][ \A c \in Searches :
        EngineFailed(c) =>
          /\ ctl'._state.searchError = Some(trace'[1].data[1].error[1].text)
          /\ Emitted(trace', "searcherror") = 1
          /\ calls'[c].out[1].ok ]_vars

(***************************************************************************)
(* Properties of SpecDraw.                                                 *)
(***************************************************************************)

\* The step is a call of the operation (or the pointer event of that type).
Called(op) == trace'[1].type = op

\* The box between the anchor and the release point is below the threshold
\* in both directions.
SmallDrag(a, p) ==
  /\ DragBox(a, p)[3] - DragBox(a, p)[1] < minDrag
  /\ DragBox(a, p)[4] - DragBox(a, p)[2] < minDrag

(***************************************************************************)
(* C18: after startDrawing, a pointer press followed by a release whose    *)
(* box is below the minimum-drag threshold in longitude and in latitude    *)
(* commits no box: drawnBbox stays unset, no drawend event is emitted, and *)
(* the control ends in idle mode (isDrawing false, searchMode 'none').     *)
(***************************************************************************)
C18_SmallDragCommitsNothing ==
  [][ ( /\ Called("mouseup")
        /\ ctl._state.isDrawing
        /\ ctl._bound # None
        /\ ctl._drawStartPoint # None
        /\ SmallDrag(ctl._drawStartPoint[1], trace'[1].data[1]) )
      => /\ ctl._state.drawnBbox = None
         /\ ctl'._state.drawnBbox = None
         /\ Emitted(trace', "drawend") = 0
         /\ ~ctl'._state.isDrawing
         /\ ctl'._state.searchMode = "none" ]_vars

C18_Witness ==
  /\ trace # <<>>
  /\ trace[1].type = "mouseup"
  /\ trace[1].data = Some(<<1, 0>>)
  /\ Len(trace) > 1
  /\ map.listeners = {}
  /\ map.source = Some(Some(<<0, 0, 1, 0>>))
  /\ ctl._state.drawnBbox = None
  /\ ~ctl._state.isDrawing
  /\ ctl._state.searchMode = "none"

(***************************************************************************)
(* C19 (as stated): after any sequence of startDrawing calls (also while   *)
(* already drawing), pointer events and stopDrawing calls, once            *)
(* stopDrawing has returned no drawing pointer listener remains on the     *)
(* map, so a pointer press and release in idle mode never sets drawnBbox   *)
(* or emits drawend; stopDrawing leaves the mode idle whether or not       *)
(* drawing was started.                                                    *)
(***************************************************************************)
C19_StopDrawingRemovesEveryListener ==
  [][ /\ (Called("stopDrawing") /\ ctl._map) =>
            /\ map'.listeners = {}
            /\ ~ctl'._state.isDrawing
            /\ ctl'._state.searchMode = "none"
      /\ ((Called("mousedown") \/ Called("mouseup")) /\ ~ctl._state.isDrawing) =>
            /\ ctl'._state.drawnBbox = ctl._state.drawnBbox
            /\ Emitted(trace', "drawend") = 0 ]_vars

(***************************************************************************)
(* C20: for a control that is added to a map, drawnBbox is unset when      *)
(* startDrawing returns, whatever box was committed before, and it is set  *)
(* again only by a release that commits a drag (and emits drawend).        *)
(***************************************************************************)
C20_StartDrawingDiscardsDrawnBbox ==
  [][ /\ (Called("startDrawing") /\ ctl._map) => ctl'._state.drawnBbox = None
      /\ (ctl'._state.drawnBbox # None /\ ctl'._state.drawnBbox # ctl._state.drawnBbox) =>
            /\ Called("mouseup")
            /\ Emitted(trace', "drawend") >= 1 ]_vars

C20_Witness ==
  /\ trace # <<>>
  /\ trace[1].type = "startDrawing"
  /\ ctl._map
  /\ ctl._state.isDrawing
  /\ ctl._state.drawnBbox = None
  /\ \E i \in DOMAIN trace :
       /\ IsEmit(trace, i, "statechange")
       /\ trace[i].state.drawnBbox = Some(<<0, 0, 0, 3>>)

(***************************************************************************)
(* Selection and results (SpecControl).                                    *)
(***************************************************************************)

\* The ids of the current searchResults.
ResultIds(state) == { state.searchResults[k].id : k \in DOMAIN state.searchResults }

(***************************************************************************)
(* C21 (as stated): in every reachable state of the control, selectedItems *)
(* is a subset of the ids of the current searchResults.                    *)
(***************************************************************************)
C21_SelectionWithinResults == ctl._state.selectedItems \subseteq ResultIds(ctl._state)

(***************************************************************************)
(* C21 (amended): the selection is emptied when a search sets out; a       *)
(* toggle adds or removes its id whether or not the id is among the        *)
(* results; and no other step of searching touches the selection, so that  *)
(* a search that completes leaves the ids selected meanwhile in place even *)
(* when its results do not contain them.                                   *)
(***************************************************************************)
C21_SelectionEmptiedOnlyBySearchStart ==
  [][ /\ \A c \in Searches : Begun(c) => ctl'._state.selectedItems = {}
      /\ trace'[1].type = "toggleItemSelection" =>
           LET id == trace'[1].data[1]
               sel == ctl._state.selectedItems
           IN ctl'._state.selectedItems = IF id \in sel THEN sel \ {id} ELSE sel \cup {id}
      /\ ( /\ \A c \in Searches : ~Begun(c)
           /\ trace'[1].type \notin {"toggleItemSelection", "clearResults"} )
         => ctl'._state.selectedItems = ctl._state.selectedItems ]_vars

C21_Witness ==
  /\ trace # <<>>
  /\ trace[1].type = "resolve"
  /\ ctl._state.selectedItems # {}
  /\ ~(ctl._state.selectedItems \subseteq ResultIds(ctl._state))

(***************************************************************************)
(* The batches of a rebuild (Spec).                                        *)
(***************************************************************************)

\* The requests of process r that have not settled.
Outstanding(run) == {k \in DOMAIN run.results : run.results[k].st = "pending"}

\* Process r is a rebuild that is fetching item documents.
Rebuilding(r) == runs[r].fn = "rebuildIndex" /\ runs[r].pc = "batch"

(***************************************************************************)
(* C28: during a rebuild the requests that exist are those of one batch:   *)
(* at most batchSize are outstanding, the records collected so far come    *)
(* from earlier batches only, the next batch is issued in the step in      *)
(* which the last request of the current one settles, and the rebuild      *)
(* ends, writing the cache, only in the step in which the last request of  *)
(* the last batch settles (batchSize stands for the 50 of the code).       *)
(***************************************************************************)
C28_BatchesInSequence ==
  /\ [](\A r \in Runs : Rebuilding(r) =>
          /\ Len(runs[r].results) = Min(runs[r].i + batchSize, Len(runs[r].itemLinks)) - runs[r].i
          /\ Cardinality(Outstanding(runs[r])) <= batchSize
          /\ Outstanding(runs[r]) # {}
          /\ Len(runs[r].items) <= runs[r].i)
  /\ [][ \A r \in Runs : Rebuilding(r) =>
           /\ (runs'[r].pc = "batch" /\ runs'[r].i # runs[r].i) =>
                /\ Cardinality(Outstanding(runs[r])) = 1
                /\ runs'[r].i = runs[r].i + batchSize
                /\ Outstanding(runs'[r]) = DOMAIN runs'[r].results
           /\ (runs'[r] # runs[r] /\ runs'[r].pc = "batch") =>
                /\ localStorage' = localStorage
                /\ written' = written
           /\ (runs'[r].pc # "batch" /\ finished' # finished /\ finished' # None) =>
                /\ Cardinality(Outstanding(runs[r])) = 1
                /\ runs[r].i + batchSize >= Len(runs[r].itemLinks) ]_vars

C28_Witness ==
  \E r \in Runs :
    /\ Rebuilding(r)
    /\ runs[r].i = batchSize
    /\ Len(runs[r].itemLinks) > batchSize
    /\ Len(runs[r].items) >= 1
    /\ Outstanding(runs[r]) # {}

\* The first of the two values that is present.
FirstPresent(a, b) == IF a # None THEN a ELSE b

(***************************************************************************)
(* C29 (as stated): for every fetched item document the record's           *)
(* pointCount is the value of 'pc:count' whenever that property is         *)
(* present, a value of 0 included, and the value of 'pointcloud:count'     *)
(* only when 'pc:count' is absent.                                         *)
(***************************************************************************)
C29_FirstPresentCountWins ==
  \A r \in Runs : \A k \in DOMAIN runs[r].results :
    runs[r].results[k].st = "item" =>
      LET doc == ItemDocs(runs[r].itemLinks[runs[r].i + k].href)
      IN runs[r].results[k].item[1].pointCount
           = FirstPresent(doc.pcCount, doc.pointcloudCount)

(***************************************************************************)
(* The box a gesture commits (SpecDraw).                                   *)
(***************************************************************************)

\* [min(lng), min(lat), max(lng), max(lat)] of two points.
Hull(a, p) ==
  << IF a[1] <= p[1] THEN a[1] ELSE p[1], IF a[2] <= p[2] THEN a[2] ELSE p[2],
     IF a[1] >= p[1] THEN a[1] ELSE p[1], IF a[2] >= p[2] THEN a[2] ELSE p[2] >>

\* The step is a release, heard by a drawing listener, that ends a drag from
\* an anchor over more than the threshold.
Commits ==
  /\ Called("mouseup")
  /\ map.listeners # {}
  /\ ctl._drawStartPoint # None
  /\ LET h == Hull(ctl._drawStartPoint[1], trace'[1].data[1])
     IN h[3] - h[1] > minDrag \/ h[4] - h[2] > minDrag

(***************************************************************************)
(* C30: whenever a drawing gesture commits a box, drawnBbox equals         *)
(* [min(lng), min(lat), max(lng), max(lat)] of the anchor and the release  *)
(* point, so west <= east and south <= north hold for every drawnBbox set  *)
(* by drawing; exactly one drawend event is emitted per committed box and  *)
(* its snapshot contains that box; after the gesture the committed box is  *)
(* kept while the mode is idle again.                                      *)
(***************************************************************************)
C30_CommittedBoxIsOrderedHull ==
  /\ [](ctl._state.drawnBbox # None =>
          /\ ctl._state.drawnBbox[1][1] <= ctl._state.drawnBbox[1][3]
          /\ ctl._state.drawnBbox[1][2] <= ctl._state.drawnBbox[1][4])
  /\ [][ /\ Commits =>
              LET box == Hull(ctl._drawStartPoint[1], trace'[1].data[1]) IN
              /\ ctl'._state.drawnBbox = Some(box)
              /\ Emitted(trace', "drawend") = 1
              /\ \A i \in DOMAIN trace' :
                   IsEmit(trace', i, "drawend") => trace'[i].state.drawnBbox = Some(box)
              /\ ~ctl'._state.isDrawing
              /\ ctl'._state.searchMode = "none"
         /\ ~Commits => Emitted(trace', "drawend") = 0 ]_vars

C30_Witness ==
  /\ trace # <<>>
  /\ trace[1].type = "mouseup"
  /\ trace[1].data = Some(<<1, 0>>)
  /\ Emitted(trace, "drawend") = 1
  /\ ctl._state.drawnBbox = Some(<<0, 0, 1, 3>>)
  /\ ~ctl._state.isDrawing
  /\ ctl._state.searchMode = "none"

(***************************************************************************)
(* Properties of SpecLoad and SpecFrame.                                   *)
(***************************************************************************)

\* The last step ended a loadItem or loadSelectedItems call.
Returned(t) == t # <<>> /\ t[Len(t)].kind = "call" /\ t[Len(t)].type = "return"

\* The record of the call that the last step ended.
Ret(t) == t[Len(t)].data[1]

\* The elements of a sequence.
Range(q) == { q[k] : k \in DOMAIN q }

LoadedIds == DOMAIN ctl._state.loadedItems

(***************************************************************************)
(* C22 (as stated): every loadItem call that succeeds adds exactly the     *)
(* entry for item.id to loadedItems and emits loadcomplete; every loadItem *)
(* call that fails, for whatever reason, emits a loaderror event and       *)
(* leaves loadedItems as it was before the call.  (Calls during which      *)
(* another operation changed loadedItems are left out.)                    *)
(***************************************************************************)
C22_LoadItemReportsEveryFailure ==
  (Returned(trace) /\ Ret(trace).fn = "loadItem" /\ Ret(trace).alone) =>
     IF Ret(trace).out[1].ok
       THEN /\ LoadedIds = Ret(trace).before \cup {Ret(trace).tried[1]}
            /\ Emitted(trace, "loadcomplete") = 1
       ELSE /\ Ret(trace).errors >= 1
            /\ LoadedIds = Ret(trace).before

(***************************************************************************)
(* C23 (as stated): loadSelectedItems attempts loadItem for every id that  *)
(* is in the selection and not already in loadedItems, and for no other    *)
(* id.                                                                     *)
(***************************************************************************)
C23_LoadsEverySelectedId ==
  (Returned(trace) /\ Ret(trace).fn = "loadSelectedItems" /\ Ret(trace).alone) =>
     Range(Ret(trace).tried) = Ret(trace).selection \ Ret(trace).before

(***************************************************************************)
(* C23 (amended): loadSelectedItems attempts loadItem for the items of     *)
(* searchResults whose id is selected when it is called, in the order of   *)
(* the results, leaving out those that are loaded when their turn comes;   *)
(* selected ids that are not among the results are not attempted.  The     *)
(* attempts are sequential, a failing item does not stop the remaining     *)
(* ones, and loadSelectedItems itself does not reject.                     *)
(***************************************************************************)
C23_LoadsSelectedResultsInTurn ==
  /\ [](\A l \in Loads : loads[l].pc # "idle" =>
          /\ loads[l].item # None
          /\ Len(loads[l].tried) = Len(loads[l].loaded) + Len(loads[l].failed) + 1
          /\ loads[l].tried[Len(loads[l].tried)] = loads[l].item[1].id)
  /\ []((Returned(trace) /\ Ret(trace).fn = "loadSelectedItems") =>
          /\ Ret(trace).out[1].ok
          /\ Range(Ret(trace).tried) \subseteq Range(Ret(trace).listed)
          /\ Range(Ret(trace).listed) \subseteq Ret(trace).selection
          /\ Len(Ret(trace).tried) = Len(Ret(trace).loaded) + Len(Ret(trace).failed)
          /\ Ret(trace).alone =>
               Ret(trace).tried
                 = SelectSeq(Ret(trace).listed, LAMBDA id : id \notin Ret(trace).before))

C23_Witness ==
  /\ Returned(trace)
  /\ Ret(trace).fn = "loadSelectedItems"
  /\ Ret(trace).alone
  /\ Len(Ret(trace).tried) = 2
  /\ Ret(trace).failed = <<Ret(trace).tried[1]>>
  /\ Ret(trace).loaded = <<Ret(trace).tried[2]>>

(***************************************************************************)
(* C24 (as stated): when loadSelectedItems has finished, loadedItems       *)
(* contains the ids that were loaded before the call plus exactly the      *)
(* selected ids whose load succeeded, and exactly one loaderror event was  *)
(* emitted for each selected id whose load failed.  (Calls during which    *)
(* another operation changed loadedItems are left out.)                    *)
(***************************************************************************)
C24_OneLoadErrorPerFailedId ==
  (Returned(trace) /\ Ret(trace).fn = "loadSelectedItems" /\ Ret(trace).alone) =>
     /\ LoadedIds = Ret(trace).before \cup Range(Ret(trace).loaded)
     /\ Ret(trace).errors = Len(Ret(trace).failed)

\* The point clouds the LiDAR control holds.
Clouds(c) == IF c._lidarControl = None THEN {} ELSE c._lidarControl[1].clouds

\* The 'unload' events of sequence t that carry the id.
Unloads(t, id) ==
  { i \in DOMAIN t : IsEmit(t, i, "unload") /\ t[i].data = Some(id) }

(***************************************************************************)
(* C25: unloadItem(id) for a loaded id releases that item's point cloud,   *)
(* removes exactly that entry from loadedItems and emits exactly one       *)
(* unload event carrying id; for an id that is not loaded it changes       *)
(* nothing and emits no unload event; clearLoadedItems empties loadedItems *)
(* and emits exactly one unload event for each id that was loaded before.  *)
(***************************************************************************)
C25_UnloadRemovesAndReports ==
  [][ /\ Called("unloadItem") =>
           LET id == trace'[1].data[1] IN
           IF id \in LoadedIds
             THEN /\ ctl'._state.loadedItems = Delete(ctl._state.loadedItems, id)
                  /\ Clouds(ctl') = Clouds(ctl) \ {ctl._state.loadedItems[id].id}
                  /\ Emitted(trace', "unload") = 1
                  /\ Cardinality(Unloads(trace', id)) = 1
             ELSE /\ ctl' = ctl
                  /\ Len(trace') = 1
      /\ Called("clearLoadedItems") =>
           /\ DOMAIN ctl'._state.loadedItems = {}
           /\ Clouds(ctl') = {}
           /\ Emitted(trace', "unload") = Cardinality(LoadedIds)
           /\ \A id \in LoadedIds : Cardinality(Unloads(trace', id)) = 1 ]_vars

C25_Witness ==
  /\ trace # <<>>
  /\ trace[1].type = "unloadItem"
  /\ Emitted(trace, "unload") = 1
  /\ Cardinality(LoadedIds) = 1
  /\ trace[1].data[1] \notin LoadedIds
  /\ Cardinality(Clouds(ctl)) = 1

(***************************************************************************)
(* C26: clearResults sets searchResults to empty, selectedItems to empty   *)
(* and totalMatched to null, and leaves loadedItems, drawnBbox and the     *)
(* drawing mode unchanged.                                                 *)
(***************************************************************************)
C26_ClearResultsKeepsTheRest ==
  [][ Called("clearResults") =>
        /\ ctl'._state.searchResults = <<>>
        /\ ctl'._state.selectedItems = {}
        /\ ctl'._state.totalMatched = None
        /\ ctl'._state.loadedItems = ctl._state.loadedItems
        /\ ctl'._state.drawnBbox = ctl._state.drawnBbox
        /\ ctl'._state.searchMode = ctl._state.searchMode
        /\ ctl'._state.isDrawing = ctl._state.isDrawing ]_vars

C26_Witness ==
  /\ trace # <<>>
  /\ trace[1].type = "clearResults"
  /\ Len(trace) = 3
  /\ trace[2].state.searchResults # <<>>
  /\ trace[2].state.selectedItems # {}
  /\ ctl._state.searchResults = <<>>
  /\ LoadedIds # {}
  /\ ctl._state.drawnBbox # None

\* The operations that are not loading or unloading: searching, clearing
\* the results, drawing, selecting, the panel toggle and the life cycle.
OtherOps ==
  { "searchByBbox", "resume", "resolve", "reject", "clearResults",
    "startDrawing", "stopDrawing", "clearDrawnBbox", "mousedown", "mousemove",
    "mouseup", "toggleItemSelection", "toggle", "onAdd", "onRemove", "on",
    "style.load" }

(***************************************************************************)
(* C27: loadedItems changes only as the effect of loadItem,                *)
(* loadSelectedItems, unloadItem and clearLoadedItems: search,             *)
(* clearResults, drawing, selection and panel toggle operations, in any    *)
(* order and interleaving, leave loadedItems unchanged.                    *)
(***************************************************************************)
C27_OnlyLoadingChangesLoadedItems ==
  [][ /\ trace'[1].type \in OtherOps =>
           ctl'._state.loadedItems = ctl._state.loadedItems
      /\ ctl'._state.loadedItems # ctl._state.loadedItems =>
           trace'[1].type \in {"cloud", "unloadItem", "clearLoadedItems"} ]_vars

C27_Witness ==
  /\ trace # <<>>
  /\ trace[1].type = "resume"
  /\ LoadedIds # {}
  /\ ctl._state.isSearching
  /\ ctl._state.drawnBbox # None
  /\ ~ctl._state.collapsed

(***************************************************************************)
(* Properties of SpecSelect.                                               *)
(***************************************************************************)

\* The fields of the state other than the selection.
Unselected(state) == [ f \in (DOMAIN state) \ {"selectedItems"} |-> state[f] ]

\* The id handed to the operation of the step.
Arg == trace'[1].data[1]

(***************************************************************************)
(* C31: selectItem, deselectItem and toggleItemSelection change nothing of *)
(* the state but selectedItems; selectItem adds its id and deselectItem    *)
(* removes it whether or not the id is among the searchResults, so that    *)
(* selecting a selected id and deselecting an unselected one leave the     *)
(* state as it was; and toggleItemSelection flips the membership of its    *)
(* id, so that toggling the same id again gives the selection back.        *)
(***************************************************************************)
C31_SelectionIsAPlainIdSet ==
  [][ LET sel == ctl._state.selectedItems
      IN /\ (Called("selectItem") \/ Called("deselectItem") \/ Called("toggleItemSelection"))
              => /\ Unselected(ctl'._state) = Unselected(ctl._state)
                 /\ [ctl' EXCEPT !._state = ctl._state] = ctl
                 /\ map' = map
         /\ Called("selectItem") =>
              /\ ctl'._state.selectedItems = sel \cup {Arg}
              /\ Arg \in sel => ctl'._state = ctl._state
         /\ Called("deselectItem") =>
              /\ ctl'._state.selectedItems = sel \ {Arg}
              /\ Arg \notin sel => ctl'._state = ctl._state
         /\ Called("toggleItemSelection") =>
              /\ ctl'._state.selectedItems = (IF Arg \in sel THEN sel \ {Arg} ELSE sel \cup {Arg})
              /\ toggleItemSelection(World(ctl', map', <<>>), Arg).ctl._state = ctl._state ]_vars

C31_Witness ==
  /\ trace # <<>>
  /\ trace[1].type = "selectItem"
  /\ trace[1].data = Some(Orphan.id)
  /\ Orphan.id \notin ResultIds(ctl._state)
  /\ ctl._state.selectedItems = SelectIds
  /\ ctl._state.searchResults # <<>>
  /\ ctl._state.drawnBbox # None
  /\ DOMAIN ctl._state.loadedItems # {}

(***************************************************************************)
(* The single merge step (SpecFrame).                                      *)
(***************************************************************************)

\* The state that observers saw last before entry i of the step's trace.
SeenBefore(i) == IF i = 2 THEN ctl._state ELSE trace'[i - 1].state

\* Every change of the state within the step is first seen in a
\* 'statechange' event, as setState makes it, and the step ends in the
\* state that was seen last.
ByMerge ==
  /\ \A i \in 2..Len(trace') :
       trace'[i].state # SeenBefore(i) => IsEmit(trace', i, "statechange")
  /\ ctl'._state = IF Len(trace') > 1 THEN trace'[Len(trace')].state ELSE ctl._state

(***************************************************************************)
(* C32 (as stated): every operation of the control that changes its state  *)
(* does so through the setState merge step, so that each change of the     *)
(* state is announced at once by a 'statechange' event whose snapshot is   *)
(* the merged state, the operation's own event coming in addition.         *)
(***************************************************************************)
C32_EveryChangeThroughSetState == [][ByMerge]_vars

\* The last 'statechange' event of sequence t.
LastChange(t) ==
  t[CHOOSE i \in DOMAIN t :
      /\ IsEmit(t, i, "statechange")
      /\ \A j \in DOMAIN t : IsEmit(t, j, "statechange") => j <= i]

(***************************************************************************)
(* C32 (amended): every operation but toggle changes the state through     *)
(* setState, each change being announced at once by a 'statechange' event  *)
(* that carries the merged state.  toggle writes `collapsed` itself: with  *)
(* a panel it emits 'collapse' or 'expand', which already carries the      *)
(* flipped state, and only then one 'statechange'.  Every step that        *)
(* changes the state emits 'statechange', and the last one carries the     *)
(* state the step ends in.                                                 *)
(***************************************************************************)
C32_OnlyToggleBypassesSetState ==
  [][ /\ ~Called("toggle") => ByMerge
      /\ Called("toggle") =>
           /\ ctl'._state = [ctl._state EXCEPT !.collapsed = ~@]
           /\ Len(trace') = 3
           /\ IsEmit(trace', 2, IF ctl'._state.collapsed THEN "collapse" ELSE "expand")
           /\ IsEmit(trace', 3, "statechange")
           /\ trace'[2].state = ctl'._state
           /\ trace'[3].state = ctl'._state
      /\ ctl'._state # ctl._state =>
           /\ Emitted(trace', "statechange") >= 1
           /\ LastChange(trace').state = ctl'._state ]_vars

C32_Witness ==
  /\ trace # <<>>
  /\ trace[1].type = "toggle"
  /\ Len(trace) = 3
  /\ IsEmit(trace, 2, "expand")
  /\ trace[2].state.collapsed = FALSE
  /\ ctl._state.searchResults # <<>>
  /\ DOMAIN ctl._state.loadedItems # {}

(***************************************************************************)
(* A failed load of the lazy class (Spec).                                 *)
(***************************************************************************)

\* A call is being made that starts a load.
LoadStarted == \E r \in Runs : runs[r].pc = "idle" /\ runs'[r].pc # "idle"

(***************************************************************************)
(* C33 (as stated): a failed catalog load is not memoized: once a call of  *)
(* the lazy class has been rejected because the load of the catalog        *)
(* failed, a later search on the same searcher starts a new load.          *)
(***************************************************************************)
C33_FailedLoadIsRetried ==
  [][(impl = "lazy" /\ Failed(response) /\ SearchCalled) => LoadStarted]_vars

(***************************************************************************)
(* Overlapping searches (SpecControl).                                     *)
(***************************************************************************)

\* Call c has emitted the event.
Emits(c, event) == \E i \in DOMAIN calls[c].events : calls[c].events[i] = event

\* Call c has emitted 'searchstart' and neither of the events that end it.
InFlight(c) ==
  /\ Emits(c, "searchstart")
  /\ ~Emits(c, "searchcomplete")
  /\ ~Emits(c, "searcherror")

(***************************************************************************)
(* C34 (as stated): in every reachable state, overlapping calls included,  *)
(* isSearching is true exactly when some searchByBbox call has emitted     *)
(* 'searchstart' and has not yet emitted 'searchcomplete' or               *)
(* 'searcherror'.                                                          *)
(***************************************************************************)
C34_IsSearchingWhileACallIsInFlight ==
  ctl._state.isSearching <=> \E c \in Searches : InFlight(c)

\* Every call that can be made has been made and has settled.  The calls take
\* their numbers in the order in which they are made.
AllSettled == \A c \in Searches : calls[c].pc = "done"

\* The state is what call c made of its outcome.
OutcomeOf(c) ==
  IF calls[c].out[1].ok
    THEN LET resp == Answered(c)
             items == [k \in 1..Len(resp.features) |-> stacToUnified(resp.features[k])]
         IN /\ ctl._state.searchResults = items
            /\ ctl._state.totalMatched = Some(TotalMatched(resp, items))
            /\ ctl._state.searchError = None
    ELSE ctl._state.searchError = Some(calls[c].out[1].error[1].text)

(***************************************************************************)
(* C35 (as stated): once all of several searchByBbox calls have settled,   *)
(* searchResults, totalMatched and searchError are the outcome of the call *)
(* that was made last, in whatever order the calls completed.              *)
(***************************************************************************)
C35_LastStartedSearchWins == AllSettled => OutcomeOf(MaxSearches)

(***************************************************************************)
(* Overlapping loads (SpecOverlap).                                        *)
(***************************************************************************)

\* The calls that await the external loader for the id.
Loading(id) ==
  { l \in Loads : loads[l].pc = "cloud" /\ loads[l].item[1].id = id }

\* The point clouds that loadedItems records.
Recorded == { ctl._state.loadedItems[id].id : id \in LoadedIds }

\* Call l invokes the external loader in this step.
Invokes(l) == loads'[l].pc = "cloud" /\ loads'[l].tried # loads[l].tried

(***************************************************************************)
(* C36 (as stated): however loadItem and loadSelectedItems calls are       *)
(* interleaved, the external loader is invoked at most once per item id    *)
(* while the id is loaded or being loaded, so that every point cloud the   *)
(* loader holds is the one recorded in loadedItems.                        *)
(***************************************************************************)
C36_LoaderInvokedOncePerId ==
  /\ \A id \in ItemIds :
       Cardinality(Loading(id)) + (IF id \in LoadedIds THEN 1 ELSE 0) <= 1
  /\ Clouds(ctl) \subseteq Recorded

(***************************************************************************)
(* C36 (amended): loadSelectedItems invokes the loader for an item only    *)
(* when the item's id is not in loadedItems at its turn, whereas loadItem  *)
(* invokes it whether or not the id is loaded or being loaded; every point *)
(* cloud recorded in loadedItems is one the loader holds, with one entry   *)
(* per id, but the loader may hold further point clouds of the same id     *)
(* that no entry records.                                                  *)
(***************************************************************************)
C36_OnlyLoadedIdsAreSkipped ==
  /\ [](Recorded \subseteq Clouds(ctl))
  /\ [][ /\ \A l \in Loads :
              (Invokes(l) /\ loads'[l].fn = "loadSelectedItems")
                => loads'[l].item[1].id \notin DOMAIN ctl'._state.loadedItems
         /\ (Called("loadItem") /\ ctl._initialized /\ ctl._lidarControl # None)
              => /\ \E l \in Loads : Invokes(l) /\ loads'[l].fn = "loadItem"
                 /\ trace'[Len(trace')].type = "loadPointCloud" ]_vars

\* A loadSelectedItems call that overlapped another load of the selected item
\* has loaded it as well: the loader holds two point clouds, loadedItems
\* records one.
C36_Witness ==
  /\ Returned(trace)
  /\ Ret(trace).fn = "loadSelectedItems"
  /\ ~Ret(trace).alone
  /\ Ret(trace).before = {}
  /\ Len(Ret(trace).loaded) = 1
  /\ Cardinality(LoadedIds) = 1
  /\ Cardinality(Clouds(ctl)) = 2
  /\ NoLoad

(***************************************************************************)
(* Two searchers of different catalogs (SpecShared).                       *)
(***************************************************************************)

\* The records the next search of the second searcher will look through, and
\* those of the first.
PeerRecords == IF peer._items # None THEN peer._items[1] ELSE _loadItems(_getFromCache)
OwnRecords == IF _items # None THEN _items[1] ELSE _loadItems(_getFromCache)

(***************************************************************************)
(* C37 (as stated): two searchers constructed with different catalog URLs  *)
(* do not see each other's records: no rebuild and no clearCache of one    *)
(* changes the records that the other one searches.                        *)
(***************************************************************************)
C37_SearchersDoNotShareRecords ==
  [][ /\ (peer' = peer /\ now' = now) => PeerRecords' = PeerRecords
      /\ peer' # peer => OwnRecords' = OwnRecords ]_vars

\* The step is a call of getIndexInfo; what it returned.
InfoCalled == query' # query /\ query'[1].op = "getIndexInfo"
Info == response'[1]

(***************************************************************************)
(* C38 (as stated): after any sequence of searches, rebuilds, expiry of    *)
(* the cache entry, failed cache writes and clearCache calls,              *)
(* getIndexInfo() describes the index that searches use: its source is     *)
(* 'cached' exactly when the records a search looks through are not those  *)
(* of the bundled snapshot, and its itemCount is the number of those       *)
(* records.                                                                *)
(***************************************************************************)
C38_IndexInfoDescribesSearchedIndex ==
  [][ InfoCalled =>
        /\ Info.source = "cached" <=> OwnRecords' # prebuiltIndex.items
        /\ Info.itemCount = Len(OwnRecords') ]_vars

(***************************************************************************)
(* A rebuild that fails on the root catalog (Spec).                        *)
(***************************************************************************)

\* Process r is a rebuild that is called in this step.
RebuildCalled(r) ==
  runs[r].pc = "idle" /\ runs'[r].pc = "catalog" /\ runs'[r].fn = "rebuildIndex"

\* Process r is a rebuild that the answer to its catalog request ends.
RebuildFailsOnCatalog(r) ==
  /\ runs[r].pc = "catalog" /\ runs[r].fn = "rebuildIndex"
  /\ runs'[r].pc = "idle"
  /\ finished' # None
  /\ finished'[1].outcome = "rejected"

(***************************************************************************)
(* C39: a rebuild that fails on the request of the root catalog leaves the *)
(* cache entry and the memoized index as they were, calls the progress     *)
(* callback not once, and leaves the records that a search looks through   *)
(* the same: neither the call of rebuildIndex nor the failing answer       *)
(* changes any of them.                                                    *)
(***************************************************************************)
C39_FailedRebuildChangesNothing ==
  [][ \A r \in Runs :
        /\ RebuildCalled(r) =>
             /\ localStorage' = localStorage
             /\ _items' = _items
             /\ OwnRecords' = OwnRecords
             /\ runs'[r].progress = <<>>
        /\ RebuildFailsOnCatalog(r) =>
             /\ localStorage' = localStorage
             /\ _items' = _items
             /\ OwnRecords' = OwnRecords
             /\ runs[r].progress = <<>>
             /\ finished'[1].progress = <<>>
             /\ finished'[1].count = 0
             /\ ~finished'[1].stored ]_vars

\* A rebuild with a progress callback has failed on the catalog while a
\* cache entry existed and the searcher held an index.
C39_Witness ==
  /\ impl = "prebuilt"
  /\ finished # None
  /\ finished[1].fn = "rebuildIndex"
  /\ finished[1].outcome = "rejected"
  /\ finished[1].onProgress
  /\ finished[1].catalogStatus = Some(500)
  /\ _items # None
  /\ localStorage # None

(***************************************************************************)
(* The wait for initialization (SpecWait).                                 *)
(***************************************************************************)

\* Call c waits for an animation frame of _waitForInit.
Waiting(c) == calls[c].pc = "waiting"

\* Call c has run: it emitted 'searchstart' and has ended, and the state
\* says that no search is going on.
Proceeded(c) ==
  /\ calls[c].pc = "done"
  /\ Emits(c, "searchstart")
  /\ ~ctl._state.isSearching

(***************************************************************************)
(* C40: a searchByBbox call made before the control is initialized always  *)
(* proceeds.  While it waits it has run checkInit fewer than maxAttempts   *)
(* times, so that the wait is over with the maxAttempts-th run at the      *)
(* latest, initialized or not; and every call that waits goes on to emit   *)
(* 'searchstart', to end, and to leave isSearching false.                  *)
(***************************************************************************)
C40_WaitingSearchProceeds ==
  /\ [](\A c \in Searches :
          /\ calls[c].attempts <= maxAttempts
          /\ Waiting(c) => calls[c].attempts < maxAttempts)
  /\ \A c \in Searches : Waiting(c) ~> Proceeded(c)

\* A call has run to its end on a control that was never initialized, after
\* the last of the polls.
C40_Witness ==
  /\ \E c \in Searches :
       /\ Proceeded(c)
       /\ calls[c].attempts = maxAttempts
  /\ ~ctl._initialized
  /\ ctl._state.searchResults # <<>>

====
